---- MODULE Spec2Model ----
(***************************************************************************)
(* Model of the Gist replication engine of claude-code-usage-analytics:    *)
(* the Manifest data model (src/src/sync/manifest.py) and the push         *)
(* and pull orchestration with its optimistic conflict resolver            *)
(* (src/src/sync/sync_manager.py), and the retry loop of the HTTP client   *)
(* (src/src/sync/gist_client.py).                                          *)
(*                                                                         *)
(* Timestamps are instants of one logical clock ("now"); ISO strings are   *)
(* represented by the instant they denote.  A last_record_date of 0        *)
(* stands for None.  A file name usage_data_<machine><suffix>.json is the  *)
(* pair <<machine, suffix>>.                                               *)
(***************************************************************************)
EXTENDS Integers, Sequences, FiniteSets, TLC

VARIABLES now,      \* the wall clock read by datetime.now(timezone.utc)
          gists,    \* the remote containers carrying the sync description, in creation
                    \* order: each its manifest.json and its other files by name
          pc,       \* each device's position in push or pull ("idle" between them)
          loc,      \* each device's push arguments and local variables; kept after the
                    \* push returns, with its result (and history: what the resolver
                    \* fetched and compared, and whether it returned while blind)
          gist_id,  \* SyncManager.gist_id of each device (0 is None)
          watermark,\* sync_metadata.last_gist_export_date of each device (0 is None)
          budget,   \* what the environment may still do: pushes and pulls each device may start,
                    \* remote calls that may fail, pushes of a further machine
          blind,    \* history: the device's manifest misses a manifest upload made
                    \* since it last took the remote manifest in, or that read failed
          ma, mb,   \* two Manifest values built by the Manifest operations
          last,     \* the last Manifest operation: its name, its target (ma or mb) and,
                    \* for a merge, the machine names the two inputs had in common
          opsLeft,  \* Manifest operations still allowed (model bound)
          req,      \* GistClient._request: the call in progress or the last one, the
                    \* responses its attempts met, its sleeps and its outcome
          stores,   \* the usage_records rows of each device's local stores, one store
                    \* per machine name (usage_history_<machine>.db)
          last_io   \* history: the last import or export call, its arguments, the
                    \* store as it was before, and what the call returned

mvars == <<ma, mb, last, opsLeft>>
pvars == <<gists, pc, loc, gist_id, watermark, budget, blind>>
svars == <<stores, last_io>>
vars == <<now, gists, pc, loc, gist_id, watermark, budget, blind, ma, mb, last, opsLeft, req,
          stores, last_io>>

\* ------------------------------------------------------------------ bounds
MaxTimeM == 2
MaxOps == 4
MaxOpsG == 2
MaxTime == 2
MaxTimeR == 5
MaxFailsR == 1
MaxEnv == 3
MaxTimeB == 4
MaxFailsB == 1
MaxTimeC == 3
MaxFailsP == 1
MaxRequests == 2
MaxRetryAfter == 2
MaxFailsI == 1
MaxPullsI == 2
MaxBundleLen == 2
MaxRows == 4
MaxSaved == 2
MaxPushesS == 2
MaxTimeS == 3
MaxTimeF == 2

\* --------------------------------------------------------------- universes
Machines == {"A", "B"}
BackupNames == {"bk1", "bk2"}
VERSION == "1.0"

\* All enumerations of a set without repetition: the orders in which Python
\* may iterate over a set() of these elements.
Perms(S) == {s \in [1..Cardinality(S) -> S] : \A i, j \in 1..Cardinality(S) : s[i] = s[j] => i = j}

Range(s) == {s[i] : i \in 1..Len(s)}

Max(a, b) == IF a >= b THEN a ELSE b

\* list(some_set): the elements of S in the iteration order ord.
SetToList(S, ord) == SelectSeq(ord, LAMBDA x : x \in S)

\* ---------------------------------------------------------------- Manifest
create_empty(t) ==
    [version |-> VERSION, last_updated |-> t, machines |-> <<>>,
     backup_retention_days |-> 0]

list_machines(man) == [i \in 1..Len(man.machines) |-> man.machines[i].machine_name]

has_machine(man, name) == \E i \in 1..Len(man.machines) : man.machines[i].machine_name = name

\* get_machine: the first entry with that name (callers test has_machine for None).
machine_index(man, name) ==
    CHOOSE i \in 1..Len(man.machines) :
        /\ man.machines[i].machine_name = name
        /\ \A j \in 1..(i - 1) : man.machines[j].machine_name # name

get_machine(man, name) == man.machines[machine_index(man, name)]

\* machine.get("backups", [])
backups_of(e) == IF "backups" \in DOMAIN e THEN e.backups ELSE <<>>

new_entry(name, t, current_file, total_records, last_record_date, data_files, bks) ==
    IF data_files # <<>>
    THEN [machine_name |-> name, last_sync |-> t, last_record_date |-> last_record_date,
          total_records |-> total_records, current_file |-> current_file,
          backups |-> bks, data_files |-> data_files]
    ELSE [machine_name |-> name, last_sync |-> t, last_record_date |-> last_record_date,
          total_records |-> total_records, current_file |-> current_file,
          backups |-> bks]

\* Mutant: the existing entry of the machine is not removed before the append.
add_machine_keep_existing(man, name, current_file, total_records, last_record_date, data_files, t) ==
    LET existing_backups == IF has_machine(man, name)
                            THEN backups_of(get_machine(man, name)) ELSE <<>>
        entry == new_entry(name, t, current_file, total_records, last_record_date,
                           data_files, existing_backups)
    IN [man EXCEPT !.machines = Append(man.machines, entry), !.last_updated = t]

add_machine(man, name, current_file, total_records, last_record_date, data_files, t) ==
    LET existing_backups == IF has_machine(man, name)
                            THEN backups_of(get_machine(man, name)) ELSE <<>>
        kept == SelectSeq(man.machines, LAMBDA m : m.machine_name # name)
        entry == new_entry(name, t, current_file, total_records, last_record_date,
                           data_files, existing_backups)
    IN [man EXCEPT !.machines = Append(kept, entry), !.last_updated = t]

\* Mutant: only the first file of a chunked export is listed.
get_data_files_first_only(man, name) ==
    IF ~has_machine(man, name) THEN <<>>
    ELSE LET m == get_machine(man, name)
         IN IF "data_files" \in DOMAIN m /\ m.data_files # <<>> THEN <<m.data_files[1]>>
            ELSE IF "current_file" \in DOMAIN m THEN <<m.current_file>>
            ELSE <<>>

\* Mutant: the data_files list of a chunked export is ignored.
get_data_files_current_only(man, name) ==
    IF ~has_machine(man, name) THEN <<>>
    ELSE LET m == get_machine(man, name)
         IN IF "current_file" \in DOMAIN m THEN <<m.current_file>> ELSE <<>>

get_data_files(man, name) ==
    IF ~has_machine(man, name) THEN <<>>
    ELSE LET m == get_machine(man, name)
         IN IF "data_files" \in DOMAIN m /\ m.data_files # <<>> THEN m.data_files
            ELSE IF "current_file" \in DOMAIN m THEN <<m.current_file>>
            ELSE <<>>

\* add_backup on a machine that exists (the caller models the ValueError otherwise).
add_backup(man, name, backup_filename, t) ==
    LET i == machine_index(man, name)
        m == man.machines[i]
        bks == IF backup_filename \in Range(backups_of(m)) THEN backups_of(m)
               ELSE <<backup_filename>> \o backups_of(m)
    IN [man EXCEPT !.machines[i] = [m EXCEPT !.backups = bks], !.last_updated = t]

remove_backup(man, name, backup_filename, t) ==
    IF ~has_machine(man, name) \/ "backups" \notin DOMAIN get_machine(man, name) THEN man
    ELSE LET i == machine_index(man, name)
             m == man.machines[i]
             bks == SelectSeq(m.backups, LAMBDA b : b # backup_filename)
         IN [man EXCEPT !.machines[i] = [m EXCEPT !.backups = bks], !.last_updated = t]

get_last_updated(man) == man.last_updated

is_newer_than(man, timestamp) == man.last_updated > timestamp

\* Mutant: for a machine in both manifests the entry of self always wins.
merged_machine_self_wins(self, other, name, bord) ==
    IF has_machine(self, name) /\ has_machine(other, name)
    THEN LET sm == get_machine(self, name)
             om == get_machine(other, name)
             both == Range(backups_of(sm)) \cup Range(backups_of(om))
         IN [sm EXCEPT !.backups = SetToList(both, bord)]
    ELSE IF has_machine(self, name) THEN get_machine(self, name)
    ELSE get_machine(other, name)

\* The merged entry of one machine name present in self, in other, or in both.
merged_machine(self, other, name, bord) ==
    IF has_machine(self, name) /\ has_machine(other, name)
    THEN LET sm == get_machine(self, name)
             om == get_machine(other, name)
             base == IF sm.last_sync >= om.last_sync THEN sm ELSE om
             both == Range(backups_of(sm)) \cup Range(backups_of(om))
         IN [base EXCEPT !.backups = SetToList(both, bord)]
    ELSE IF has_machine(self, name) THEN get_machine(self, name)
    ELSE get_machine(other, name)

\* Mutant: only the machines of self are merged.
merge_with_self_names(self, other, mord, bord) ==
    LET names == SetToList(Range(list_machines(self)), mord)
    IN [version |-> VERSION,
        last_updated |-> Max(self.last_updated, other.last_updated),
        machines |-> [i \in 1..Len(names) |-> merged_machine(self, other, names[i], bord)],
        backup_retention_days |-> self.backup_retention_days]

\* Mutant: the merged manifest takes the last_updated of other.
merge_with_other_updated(self, other, mord, bord) ==
    LET names == SetToList(Range(list_machines(self)) \cup Range(list_machines(other)), mord)
    IN [version |-> VERSION,
        last_updated |-> other.last_updated,
        machines |-> [i \in 1..Len(names) |-> merged_machine(self, other, names[i], bord)],
        backup_retention_days |-> self.backup_retention_days]

\* merge_with; mord and bord are the iteration orders of the two set() objects.
merge_with(self, other, mord, bord) ==
    LET all_machine_names == SetToList(Range(list_machines(self)) \cup Range(list_machines(other)), mord)
    IN [version |-> VERSION,
        last_updated |-> Max(self.last_updated, other.last_updated),
        machines |-> [i \in 1..Len(all_machine_names) |->
                         merged_machine(self, other, all_machine_names[i], bord)],
        backup_retention_days |-> self.backup_retention_days]

\* ----------------------------------------------------- push: local helpers
Devices == Machines   \* every device pushes under its own machine name
MAX_RETRIES == 3

\* The clock instants of one calendar day (export_date[:10], strftime("%Y%m%d")).
TicksPerDay == 2
DateOf(ts) == (ts + TicksPerDay - 1) \div TicksPerDay

\* What export_to_json_chunked returns: the bundles in dict order, each with its
\* suffix, its number of records and its data_range.newest (0 is None).
ExpEmpty == <<[suffix |-> "", records |-> 0, newest |-> 0]>>
ExpSingle == <<[suffix |-> "", records |-> 1, newest |-> 1]>>
ExpChunked == <<[suffix |-> "_Y1", records |-> 1, newest |-> 1],
                [suffix |-> "_Y2", records |-> 1, newest |-> 2]>>
ChunkedExports == {ExpEmpty, ExpSingle, ExpChunked}

RECURSIVE sum_records(_)
sum_records(exp) == IF exp = <<>> THEN 0 ELSE Head(exp).records + sum_records(Tail(exp))

RECURSIVE newest_of(_)
newest_of(exp) == IF exp = <<>> THEN 0 ELSE Max(Head(exp).newest, newest_of(Tail(exp)))

is_chunked(exp) == Len(exp) > 1 \/ \A i \in 1..Len(exp) : exp[i].suffix # ""

\* Mutant: the zero-record test is taken only for a forced push.
nothing_to_sync_forced(exp, force) == sum_records(exp) = 0 /\ force

nothing_to_sync(exp, force) == sum_records(exp) = 0 /\ ~force

file_names(name, exp) == [i \in 1..Len(exp) |-> <<name, exp[i].suffix>>]

\* Mutant: current_file is the last file of the list, data_files is always passed.
machine_update_last_file(name, exp) ==
    [current_file |-> file_names(name, exp)[Len(exp)],
     data_files |-> file_names(name, exp),
     total_records |-> sum_records(exp),
     last_record_date |-> newest_of(exp)]

\* The arguments push passes to add_machine for the export exp.
machine_update(name, exp) ==
    [current_file |-> file_names(name, exp)[1],
     data_files |-> IF is_chunked(exp) THEN file_names(name, exp) ELSE <<>>,
     total_records |-> sum_records(exp),
     last_record_date |-> newest_of(exp)]

\* Backup files are named <<machine, suffix, day>> (…_backup_YYYYMMDD.json).
backup_name(current_filename, t) == <<current_filename[1], current_filename[2], DateOf(t)>>

\* strptime(date_str, "%Y%m%d"): the first instant (midnight) of the day.
backup_date(b) == (b[3] - 1) * TicksPerDay + 1

get_old_backups(man, name, t) ==
    IF ~has_machine(man, name) \/ "backups" \notin DOMAIN get_machine(man, name) THEN <<>>
    ELSE LET cutoff_date == t - man.backup_retention_days * TicksPerDay
         IN SelectSeq(get_machine(man, name).backups,
                      LAMBDA b : backup_date(b) < cutoff_date)

\* Mutant: one more conflict is merged before giving up.
retries_exhausted_late(retry_count) == retry_count > MAX_RETRIES

retries_exhausted(retry_count) == retry_count >= MAX_RETRIES

\* The values the ConflictError message is formatted from.
conflict_error_message(local_timestamp, remote_timestamp) ==
    <<[name |-> "MAX_RETRIES", value |-> MAX_RETRIES]>>

\* The files of a container besides manifest.json: file name -> content.  The
\* content of a data file is the JSON text of an export bundle, represented by
\* the value it denotes.
NoFiles == [f \in {} |-> 0]
put(files, name, content) ==
    [f \in DOMAIN files \cup {name} |-> IF f = name THEN content ELSE files[f]]
drop(files, names) == [f \in DOMAIN files \ names |-> files[f]]

\* The keys import_from_json reads from every record with record[...].
RequiredRecordFields == {"session_id", "message_uuid", "timestamp", "model",
                         "total_tokens", "input_tokens", "output_tokens"}

\* A row of usage_records as export_to_json writes it: message_uuid tells the
\* records apart, the other columns are the same for all.
usage_record(message_uuid) ==
    [session_id |-> "s1", message_uuid |-> message_uuid, timestamp |-> 1, model |-> "m",
     total_tokens |-> 2, input_tokens |-> 1, output_tokens |-> 1]

\* json.dumps of one bundle of an export of machine `name`: its records are the
\* rows the exporter read, when the bundle carries them, and else the machine's
\* i-th record of the date the bundle ends at.
export_content(name, export_date, bundle) ==
    [machine_name |-> name, export_date |-> export_date,
     records |-> IF "rows" \in DOMAIN bundle THEN bundle.rows
                 ELSE [i \in 1..bundle.records |->
                          usage_record(<<name, bundle.newest, i>>)]]

\* The data files an export of machine `name` leaves in a container.
export_files(name, exp, export_date) ==
    [f \in {<<name, exp[k].suffix>> : k \in 1..Len(exp)} |->
        export_content(name, export_date,
                       exp[CHOOSE k \in 1..Len(exp) : <<name, exp[k].suffix>> = f])]

NoPush == [force |-> FALSE, create_backup |-> FALSE, skip_conflict_check |-> FALSE,
           exp |-> ExpEmpty, export_date |-> 0, since_date |-> 0,
           manifest |-> create_empty(0), snapshot |-> 0, old_data_files |-> <<>>,
           retry_count |-> 0, uploaded |-> 0, push_id |-> 0, writes |-> <<>>, calls |-> 0,
           backup_created |-> FALSE, backup_failed |-> "none", old_backups |-> <<>>,
           prune_failed |-> FALSE, read_invalid |-> FALSE,
           token |-> TRUE, cmd |-> "push", machines_given |-> FALSE, machines |-> <<>>,
           todo |-> <<>>, requested |-> <<>>, machines_pulled |-> 0, errors |-> 0,
           new_records |-> 0, duplicate_records |-> 0, empty_target |-> FALSE,
           outcomes |-> <<>>, fetches |-> 0, merges |-> 0,
           local_timestamp |-> 0, remote_timestamp |-> 0, conflict |-> FALSE,
           remote_at_fetch |-> 0,
           missed_at_check |-> FALSE, conflicts_resolved |-> FALSE, status |-> "none", error |-> <<>>]

InFlight == {"resolve", "backup", "upload", "delete_old", "upload_manifest"}

\* After a manifest upload to container g by `uploader`, every other push that
\* holds a manifest of g and has not uploaded it yet misses that upload.
behind(g, uploader) ==
    [d \in Devices |-> IF d # uploader /\ gist_id[d] = g /\ pc[d] \in InFlight
                       THEN TRUE ELSE blind[d]]

after_resolve(L) == IF L.create_backup /\ L.old_data_files # <<>> THEN "backup" ELSE "upload"

\* Manifest.from_json: json.loads gave a dict and _validate found the required
\* fields.  A manifest.json that is no JSON text is the record InvalidJson.
InvalidJson == [text |-> "not json"]
MissingField == [version |-> VERSION, machines |-> <<>>]
is_valid(data) == {"version", "last_updated", "machines"} \subseteq DOMAIN data

\* _download_manifest: the remote manifest; Manifest() when the read fails (`ok`
\* is false) or from_json raises.
download_manifest(g, ok, t) ==
    IF ok /\ is_valid(gists[g].manifest) THEN gists[g].manifest ELSE create_empty(t)

\* Mutant: the resolver runs whatever skip_conflict_check says.
after_add_machine_checked(L) == "resolve"

\* Step 6: the resolver, unless skip_conflict_check.
after_add_machine(L) == IF L.skip_conflict_check THEN after_resolve(L) ELSE "resolve"

\* ------------------------------------------------------- push: the steps
\* push() up to its first remote call: the export and the nothing_to_sync test.
PushStart(d, force, create_backup, skip_conflict_check, exp, token) ==
    /\ pc[d] = "idle"
    /\ budget.pushes[d] > 0
    /\ budget' = [budget EXCEPT !.pushes[d] = @ - 1]
    /\ LET since_date == IF force THEN 0 ELSE watermark[d]
           L == [NoPush EXCEPT !.force = force, !.create_backup = create_backup,
                               !.skip_conflict_check = skip_conflict_check,
                               !.exp = exp, !.export_date = now,
                               !.push_id = budget.pushes[d], !.token = token,
                               !.since_date = since_date, !.status = "running"]
       IN IF nothing_to_sync(exp, force)
          THEN /\ loc' = [loc EXCEPT ![d] = [L EXCEPT !.status = "nothing_to_sync"]]
               /\ pc' = pc
          ELSE /\ loc' = [loc EXCEPT ![d] = L]
               /\ pc' = [pc EXCEPT ![d] = IF gist_id[d] = 0 THEN "find_gist" ELSE "download"]
    /\ UNCHANGED <<now, gists, gist_id, watermark, blind>>

\* push and pull go on to _download_manifest once they hold a gist_id.
after_find(L) == IF L.cmd = "pull" THEN "pull_manifest" ELSE "download"

\* The requests a caught remote step makes: none without a token, the client
\* property raising before any request.
calls_made(L) == IF L.token THEN 1 ELSE 0

\* _find_or_create_gist: find_gist_by_description.
FindGist(d) ==
    /\ pc[d] = "find_gist"
    /\ loc[d].token
    /\ loc' = [loc EXCEPT ![d].calls = @ + 1]
    /\ IF gists = <<>>
       THEN /\ pc' = [pc EXCEPT ![d] = "create_gist"]
            /\ UNCHANGED gist_id
       ELSE \E g \in 1..Len(gists) :
               /\ gist_id' = [gist_id EXCEPT ![d] = g]
               /\ pc' = [pc EXCEPT ![d] = after_find(loc[d])]
    /\ UNCHANGED <<now, gists, watermark, budget, blind>>

\* _find_or_create_gist: create_gist with an empty manifest.
CreateGist(d) ==
    /\ pc[d] = "create_gist"
    /\ loc[d].token
    /\ loc' = [loc EXCEPT ![d].calls = @ + 1]
    /\ gists' = Append(gists, [manifest |-> create_empty(now), files |-> NoFiles])
    /\ gist_id' = [gist_id EXCEPT ![d] = Len(gists) + 1]
    /\ pc' = [pc EXCEPT ![d] = after_find(loc[d])]
    /\ UNCHANGED <<now, watermark, budget, blind>>

\* _download_manifest (a failed read yields Manifest()), then the local steps 4
\* and 5 of push: old_data_files and add_machine.
Download(d, ok) ==
    /\ pc[d] = "download"
    /\ IF loc[d].token THEN ok \/ budget.fails > 0 ELSE ~ok
    /\ budget' = IF ok \/ ~loc[d].token THEN budget ELSE [budget EXCEPT !.fails = @ - 1]
    /\ LET L == loc[d]
           manifest == download_manifest(gist_id[d], ok, now)
           x == machine_update(d, L.exp)
           updated == add_machine(manifest, d, x.current_file, x.total_records,
                                  x.last_record_date, x.data_files, now)
           M == [L EXCEPT !.calls = @ + calls_made(L), !.manifest = updated,
                          !.read_invalid = ok /\ ~is_valid(gists[gist_id[d]].manifest),
                          !.snapshot = get_last_updated(manifest),
                          !.old_data_files = get_data_files(manifest, d)]
       IN /\ loc' = [loc EXCEPT ![d] = M]
          /\ pc' = [pc EXCEPT ![d] = after_add_machine(M)]
    /\ blind' = [blind EXCEPT ![d] = ~ok]
    /\ UNCHANGED <<now, gists, gist_id, watermark>>

\* stats["conflicts_resolved"] once the resolver has returned:
\* `if stats.get("conflicts_resolved"): stats["conflicts_resolved"] = True`.
conflicts_resolved_after(conflicts_resolved) ==
    IF conflicts_resolved THEN TRUE ELSE conflicts_resolved

\* One call of _detect_and_resolve_conflict: fetch, compare, then return, merge
\* and call itself again, or raise.  remote_at_fetch keeps what the container
\* held at the fetch, read or not.
Resolve(d, ok, mord, bord) ==
    /\ pc[d] = "resolve"
    /\ IF loc[d].token THEN ok \/ budget.fails > 0 ELSE ~ok
    /\ budget' = IF ok \/ ~loc[d].token THEN budget ELSE [budget EXCEPT !.fails = @ - 1]
    /\ LET L == loc[d]
           remote_manifest == download_manifest(gist_id[d], ok, now)
           local_timestamp == get_last_updated(L.manifest)
           remote_timestamp == get_last_updated(remote_manifest)
           conflict == is_newer_than(remote_manifest, local_timestamp)
           seen == [L EXCEPT !.calls = @ + calls_made(L), !.fetches = @ + 1,
                             !.read_invalid = @ \/ (ok /\ ~is_valid(gists[gist_id[d]].manifest)),
                             !.local_timestamp = local_timestamp,
                             !.remote_timestamp = remote_timestamp,
                             !.remote_at_fetch = gists[gist_id[d]].manifest,
                             !.conflict = conflict]
       IN IF conflict /\ retries_exhausted(L.retry_count)
          THEN /\ loc' = [loc EXCEPT ![d] =
                            [seen EXCEPT !.status = "ConflictError",
                                         !.error = conflict_error_message(local_timestamp,
                                                                          remote_timestamp)]]
               /\ pc' = [pc EXCEPT ![d] = "idle"]
               /\ UNCHANGED blind
          ELSE IF conflict
          THEN /\ loc' = [loc EXCEPT ![d] =
                            [seen EXCEPT !.manifest = merge_with(L.manifest, remote_manifest,
                                                                 mord, bord),
                                         !.retry_count = @ + 1, !.merges = @ + 1]]
               /\ pc' = pc
               /\ blind' = IF ok THEN [blind EXCEPT ![d] = FALSE] ELSE blind
          ELSE /\ loc' = [loc EXCEPT ![d] =
                            [seen EXCEPT !.missed_at_check = blind[d],
                                         !.conflicts_resolved =
                                             conflicts_resolved_after(@)]]
               /\ pc' = [pc EXCEPT ![d] = after_resolve(L)]
               /\ UNCHANGED blind
    /\ UNCHANGED <<now, gists, gist_id, watermark>>

\* Mutant: the manifest is uploaded once the first data file is.
after_upload_manifest_early(k, n, files_to_delete) ==
    IF files_to_delete # {} /\ k = n THEN "delete_old" ELSE "upload_manifest"

\* Where push goes after uploading the k-th of its n data files.
after_upload(k, n, files_to_delete) ==
    IF k < n THEN "upload"
    ELSE IF files_to_delete # {} THEN "delete_old" ELSE "upload_manifest"

\* Step 8: one update_gist call per data file.
Upload(d) ==
    /\ pc[d] = "upload"
    /\ loc[d].token
    /\ LET L == loc[d]
           data_files == file_names(d, L.exp)
           k == L.uploaded + 1
           files_to_delete == Range(L.old_data_files) \ Range(data_files)
       IN /\ gists' = [gists EXCEPT ![gist_id[d]].files =
                                          put(@, data_files[k],
                                              export_content(d, L.export_date, L.exp[k]))]
          /\ loc' = [loc EXCEPT ![d].calls = @ + 1, ![d].uploaded = k,
                                ![d].writes = Append(@, [call |-> "data", files |-> {data_files[k]}])]
          /\ pc' = [pc EXCEPT ![d] = after_upload(k, Len(data_files), files_to_delete)]
    /\ UNCHANGED <<now, gist_id, watermark, budget, blind>>

\* Step 9: the previous data files that are not in the new file set.
DeleteOld(d) ==
    /\ pc[d] = "delete_old"
    /\ loc[d].token
    /\ LET L == loc[d]
           files_to_delete == Range(L.old_data_files) \ Range(file_names(d, L.exp))
       IN /\ gists' = [gists EXCEPT ![gist_id[d]].files = drop(@, files_to_delete)]
          /\ loc' = [loc EXCEPT ![d].calls = @ + 1,
                                ![d].writes = Append(@, [call |-> "delete", files |-> files_to_delete])]
    /\ pc' = [pc EXCEPT ![d] = "upload_manifest"]
    /\ UNCHANGED <<now, gist_id, watermark, budget, blind>>

\* Mutant: the watermark is not written.
finish_keeps_watermark(d, L) ==
    /\ loc' = [loc EXCEPT ![d] = [L EXCEPT !.status = "success"]]
    /\ pc' = [pc EXCEPT ![d] = "idle"]
    /\ UNCHANGED watermark

\* Step 12 and the return: _update_local_sync_metadata with the export_date of
\* the first bundle (all bundles of one export carry the same export_date).
finish(d, L) ==
    /\ loc' = [loc EXCEPT ![d] = [L EXCEPT !.status = "success"]]
    /\ pc' = [pc EXCEPT ![d] = "idle"]
    /\ watermark' = [watermark EXCEPT ![d] = DateOf(L.export_date)]

\* Step 10, and with no backup to prune the local steps 11 and 12: the
\* watermark and the result.
UploadManifest(d) ==
    /\ pc[d] = "upload_manifest"
    /\ loc[d].token
    /\ LET L == loc[d]
           old_backups == get_old_backups(L.manifest, d, now)
           M == [L EXCEPT !.calls = @ + 1, !.old_backups = old_backups,
                          !.writes = Append(@, [call |-> "manifest", files |-> {}])]
       IN /\ gists' = [gists EXCEPT ![gist_id[d]].manifest = L.manifest]
          /\ IF old_backups # <<>>
             THEN /\ loc' = [loc EXCEPT ![d] = M]
                  /\ pc' = [pc EXCEPT ![d] = "prune"]
                  /\ UNCHANGED watermark
             ELSE finish(d, M)
    /\ blind' = behind(gist_id[d], d)
    /\ UNCHANGED <<now, gist_id, budget>>

RECURSIVE remove_backups(_, _, _, _)
remove_backups(man, name, backup_filenames, t) ==
    IF backup_filenames = <<>> THEN man
    ELSE remove_backups(remove_backup(man, name, Head(backup_filenames), t), name,
                        Tail(backup_filenames), t)

\* Step 7, _create_backup(old_data_files[0], manifest): read the previous primary
\* file, look for today's backup, upload the copy and add_backup.  `failed` is
\* the remote call that fails ("none": none does).  The three calls are taken
\* as one step: they touch files of this machine only.
Backup(d, failed) ==
    /\ pc[d] = "backup"
    /\ failed \in {"none", "read", "check", "upload"}
    /\ IF loc[d].token THEN failed = "none" \/ budget.fails > 0 ELSE failed = "read"
    /\ budget' = IF failed = "none" \/ ~loc[d].token THEN budget
                 ELSE [budget EXCEPT !.fails = @ - 1]
    /\ LET L == loc[d]
           files == gists[gist_id[d]].files
           current_filename == L.old_data_files[1]
           backup_filename == backup_name(current_filename, now)
           found == failed # "read" /\ current_filename \in DOMAIN files
           exists == failed # "check" /\ backup_filename \in DOMAIN files
           calls == IF ~found THEN 1 ELSE IF exists THEN 2 ELSE 3
           created == found /\ ~exists /\ failed # "upload"
           N == [L EXCEPT !.calls = @ + calls * calls_made(L), !.backup_failed = failed]
       IN /\ calls = 1 => failed \in {"none", "read"}
          /\ calls = 2 => failed = "none"
          /\ IF created
             THEN /\ gists' = [gists EXCEPT ![gist_id[d]].files =
                                             put(@, backup_filename, files[current_filename])]
                  /\ loc' = [loc EXCEPT ![d] =
                               [N EXCEPT !.backup_created = TRUE,
                                         !.manifest = add_backup(@, d, backup_filename, now),
                                         !.writes = Append(@, [call |-> "backup",
                                                               files |-> {backup_filename}])]]
             ELSE /\ loc' = [loc EXCEPT ![d] = N]
                  /\ UNCHANGED gists
    /\ pc' = [pc EXCEPT ![d] = "upload"]
    /\ UNCHANGED <<now, gist_id, watermark, blind>>

\* Step 11, _delete_old_backups, then step 12 and the return.
Prune(d, ok) ==
    /\ pc[d] = "prune"
    /\ IF loc[d].token THEN ok \/ budget.fails > 0 ELSE ~ok
    /\ budget' = IF ok \/ ~loc[d].token THEN budget ELSE [budget EXCEPT !.fails = @ - 1]
    /\ LET L == loc[d]
           N == [L EXCEPT !.calls = @ + calls_made(L), !.prune_failed = ~ok]
       IN IF ok
          THEN /\ gists' = [gists EXCEPT ![gist_id[d]].files = drop(@, Range(L.old_backups))]
               /\ finish(d, [N EXCEPT !.manifest = remove_backups(@, d, L.old_backups, now),
                                      !.writes = Append(@, [call |-> "prune",
                                                            files |-> Range(L.old_backups)])])
          ELSE /\ UNCHANGED gists
               /\ finish(d, N)
    /\ UNCHANGED <<now, gist_id, blind>>

\* A remote call whose failure push does not catch fails after its retries.
RemoteFail(d) ==
    /\ pc[d] \in {"find_gist", "create_gist", "upload", "delete_old", "upload_manifest"}
    /\ loc[d].token
    /\ budget.fails > 0
    /\ budget' = [budget EXCEPT !.fails = @ - 1]
    /\ loc' = [loc EXCEPT ![d].calls = @ + 1, ![d].status = "RuntimeError"]
    /\ pc' = [pc EXCEPT ![d] = "idle"]
    /\ UNCHANGED <<now, gists, gist_id, watermark, blind>>

\* The client property without a token, where no try encloses it: the
\* RuntimeError "GitHub token not configured" leaves push or pull, and no request
\* was made for this step.
ClientRaises(d) ==
    /\ pc[d] \in {"find_gist", "create_gist", "upload", "delete_old", "upload_manifest"}
    /\ ~loc[d].token
    /\ loc' = [loc EXCEPT ![d].status = "RuntimeError"]
    /\ pc' = [pc EXCEPT ![d] = "idle"]
    /\ UNCHANGED <<now, gists, gist_id, watermark, budget, blind>>

\* ------------------------------------------------------- import_from_json
\* The machine names a device may hold a store for.
StoreNames == Machines \cup {"C"}

NoIO == [op |-> "none"]

\* JSON values in "records" that are no object: a string and a number.
NotAnObject == [not_a_dict |-> "string"]
ANumber == [not_a_dict |-> "number"]
is_dict(record) == "not_a_dict" \notin DOMAIN record

\* The UNIQUE constraint of usage_records: the natural uniqueness key of a
\* record.
natural_key(record) == record.message_uuid

\* Mutant: no UNIQUE constraint, every well-formed record is inserted.
insert_outcome_no_unique(rows, record) ==
    IF ~is_dict(record) THEN "raised"
    ELSE IF ~(RequiredRecordFields \subseteq DOMAIN record) THEN "error"
    ELSE "new"

\* One pass of the per-record loop on a non-dry-run import.  "new": the INSERT
\* went through; "duplicate": sqlite3.IntegrityError; "error": another
\* exception, caught and counted; "raised": the handler of that exception
\* raises itself (record.get on a value that is no dict) and the loop is left.
insert_outcome(rows, record) ==
    IF ~is_dict(record) THEN "raised"
    ELSE IF ~(RequiredRecordFields \subseteq DOMAIN record) THEN "error"
    ELSE IF \E r \in rows : natural_key(r) = natural_key(record) THEN "duplicate"
    ELSE "new"

NoStats == [new_records |-> 0, duplicate_records |-> 0, errors |-> 0]

\* Mutant: a record that fails is logged and not counted.
count_outcome_errors_dropped(stats, outcome) ==
    CASE outcome = "new" -> [stats EXCEPT !.new_records = @ + 1]
      [] outcome = "duplicate" -> [stats EXCEPT !.duplicate_records = @ + 1]
      [] OTHER -> stats

\* The counter that one pass of the loop increments.
count_outcome(stats, outcome) ==
    CASE outcome = "new" -> [stats EXCEPT !.new_records = @ + 1]
      [] outcome = "duplicate" -> [stats EXCEPT !.duplicate_records = @ + 1]
      [] OTHER -> [stats EXCEPT !.errors = @ + 1]

\* The per-record loop: the rows of the open transaction, the counts, and
\* whether the loop was left by an exception.
RECURSIVE import_records(_, _, _)
import_records(rows, records, stats) ==
    IF records = <<>> THEN [rows |-> rows, stats |-> stats, raised |-> FALSE]
    ELSE LET record == Head(records)
             outcome == insert_outcome(rows, record)
         IN CASE outcome = "raised" -> [rows |-> rows, stats |-> stats, raised |-> TRUE]
              [] outcome = "new" ->
                    import_records(rows \cup {record}, Tail(records),
                                   count_outcome(stats, outcome))
              [] OTHER ->
                    import_records(rows, Tail(records), count_outcome(stats, outcome))

\* all(field in record for field in required_record_fields), on a dict or on
\* a string (a substring test, which fails).
has_required_fields(record) == is_dict(record) /\ RequiredRecordFields \subseteq DOMAIN record

\* The dry_run branch: a record counts as new when it has every required
\* field; `field in record` raises TypeError on a number.
RECURSIVE validate_records(_, _)
validate_records(records, stats) ==
    IF records = <<>> THEN [stats |-> stats, raised |-> FALSE]
    ELSE IF Head(records) = ANumber THEN [stats |-> stats, raised |-> TRUE]
    ELSE validate_records(Tail(records),
            IF has_required_fields(Head(records))
            THEN [stats EXCEPT !.new_records = @ + 1]
            ELSE [stats EXCEPT !.errors = @ + 1])

\* Where the environment makes a statement outside the per-record loop fail:
\* sqlite3.connect, the sync_metadata statements, register_machine.
Faults == {"none", "connect", "metadata", "register"}

\* conn.commit() after the loop: what the store holds when a later statement
\* fails and conn.rollback() runs.
committed_before_metadata(rows, inserted) == inserted

\* import_from_json(json_data, db_path, dry_run) on a store holding `rows`:
\* the rows afterwards, the stats returned and the exception raised ("none":
\* the call returns).
import_from_json(rows, json_data, dry_run, fault) ==
    IF ~({"machine_name", "export_date", "records"} \subseteq DOMAIN json_data)
    THEN [rows |-> rows, stats |-> NoStats, raised |-> "ValueError"]
    ELSE IF dry_run
    THEN LET dry == validate_records(json_data.records, NoStats)
         IN IF dry.raised THEN [rows |-> rows, stats |-> NoStats, raised |-> "TypeError"]
            ELSE [rows |-> rows, stats |-> dry.stats, raised |-> "none"]
    ELSE IF fault = "connect"
    THEN [rows |-> rows, stats |-> NoStats, raised |-> "OperationalError"]
    ELSE LET loop == import_records(rows, json_data.records, NoStats)
         IN IF loop.raised
            THEN [rows |-> rows, stats |-> NoStats, raised |-> "RuntimeError"]
            ELSE IF fault \in {"metadata", "register"}
            THEN [rows |-> committed_before_metadata(rows, loop.rows), stats |-> NoStats,
                  raised |-> "RuntimeError"]
            ELSE [rows |-> loop.rows, stats |-> loop.stats, raised |-> "none"]

\* ------------------------------------------------- export_to_json_chunked
ESTIMATED_BYTES_PER_RECORD == 550

\* A row of usage_records as the exporter reads it: its key, its date
\* <<year, month, day>> (the text YYYY-MM-DD) and its timestamp.
usage_row(message_uuid, date) ==
    [message_uuid |-> message_uuid, date |-> date, timestamp |-> message_uuid]

\* date <= other, the comparison of two YYYY-MM-DD texts.
date_le(date, other) ==
    \/ date[1] < other[1]
    \/ date[1] = other[1] /\ date[2] < other[2]
    \/ date[1] = other[1] /\ date[2] = other[2] /\ date[3] <= other[3]

\* since_date = None.
NoDate == <<>>

\* WHERE date >= since_date, when since_date is given.
since(rows, since_date) ==
    IF since_date = NoDate THEN rows ELSE {r \in rows : date_le(since_date, r.date)}

\* ORDER BY timestamp ASC.
RECURSIVE order_by_timestamp(_)
order_by_timestamp(rows) ==
    IF rows = {} THEN <<>>
    ELSE LET first == CHOOSE r \in rows : \A q \in rows : r.timestamp <= q.timestamp
         IN <<first>> \o order_by_timestamp(rows \ {first})

\* export_to_json: the records of one bundle with everything that matches.
export_to_json(rows, since_date) == order_by_timestamp(since(rows, since_date))

\* The records of a period, from the later of start_date and since_date.
period_records(rows, start_date, end_date, since_date) ==
    LET effective_start == IF since_date # NoDate /\ ~date_le(since_date, start_date)
                           THEN since_date ELSE start_date
    IN order_by_timestamp({r \in rows : /\ date_le(effective_start, r.date)
                                        /\ date_le(r.date, end_date)})

\* _export_period: the records of the bundle, <<>> for None.
export_period(rows, start_date, end_date, since_date) ==
    period_records(rows, start_date, end_date, since_date)

\* Mutant: the slices of a month are one record longer than max_records.
chunk_slice_one_more(all_records, i, max_records) ==
    SubSeq(all_records, (i - 1) * max_records + 1,
           IF i * max_records + 1 < Len(all_records)
           THEN i * max_records + 1 ELSE Len(all_records))

\* all_records[i:i + max_records] of the i-th pass of the loop, i from 1.
chunk_slice(all_records, i, max_records) ==
    SubSeq(all_records, (i - 1) * max_records + 1,
           IF i * max_records < Len(all_records)
           THEN i * max_records ELSE Len(all_records))

\* _export_chunked_by_count: the list of chunks; the ceiling division by
\* max_records = 0 raises.
export_chunked_by_count(rows, start_date, end_date, since_date, max_records) ==
    LET all_records == period_records(rows, start_date, end_date, since_date)
    IN IF all_records = <<>> THEN [raised |-> "none", chunks |-> <<>>]
       ELSE IF max_records = 0 THEN [raised |-> "ZeroDivisionError", chunks |-> <<>>]
       ELSE LET total_chunks == (Len(all_records) + max_records - 1) \div max_records
            IN [raised |-> "none",
                chunks |-> [i \in 1..total_chunks |->
                               chunk_slice(all_records, i, max_records)]]

last_day(y, m) ==
    IF m \in {1, 3, 5, 7, 8, 10, 12} THEN 31
    ELSE IF m \in {4, 6, 9, 11} THEN 30
    ELSE IF y % 4 = 0 /\ (y % 100 # 0 \/ y % 400 = 0) THEN 29 ELSE 28

\* count_year_query: SELECT COUNT(*) ... WHERE substr(date, 1, 4) = year.
year_count(rows, year) == Cardinality({r \in rows : r.date[1] = year})

\* count_month_query: SELECT COUNT(*) ... WHERE substr(date, 1, 7) = year_month.
month_count(rows, year_month) ==
    Cardinality({r \in rows : <<r.date[1], r.date[2]>> = year_month})

\* The bundles of one month of a year that is split, each a suffix
\* (<<y, m>> for _YYYY_MM, <<y, m, n>> for _YYYY_MM_pN) with its records.
month_bundles(rows, year_month, since_date, max_records_per_file) ==
    LET y == year_month[1]
        m == year_month[2]
    IN IF month_count(rows, year_month) <= max_records_per_file
       THEN LET month_data == export_period(rows, <<y, m, 1>>, <<y, m, last_day(y, m)>>,
                                             since_date)
            IN [raised |-> "none",
                bundles |-> IF month_data = <<>> THEN {}
                            ELSE {[suffix |-> <<y, m>>, records |-> month_data]}]
       ELSE LET res == export_chunked_by_count(rows, <<y, m, 1>>, <<y, m, last_day(y, m)>>,
                                               since_date, max_records_per_file)
            IN [raised |-> res.raised,
                bundles |-> {[suffix |-> <<y, m, chunk_num>>,
                              records |-> res.chunks[chunk_num]] :
                                chunk_num \in DOMAIN res.chunks}]

\* The pass of the year loop for one year.
year_bundles(rows, year, year_months, since_date, max_records_per_file) ==
    IF year_count(rows, year) <= max_records_per_file
    THEN LET year_data == export_period(rows, <<year, 1, 1>>, <<year, 12, 31>>, since_date)
         IN [raised |-> "none",
             bundles |-> IF year_data = <<>> THEN {}
                         ELSE {[suffix |-> <<year>>, records |-> year_data]}]
    ELSE LET year_month_list == {ym \in year_months : ym[1] = year}
             months == [ym \in year_month_list |->
                          month_bundles(rows, ym, since_date, max_records_per_file)]
         IN [raised |-> IF \E ym \in year_month_list : months[ym].raised # "none"
                        THEN "ZeroDivisionError" ELSE "none",
             bundles |-> UNION {months[ym].bundles : ym \in year_month_list}]

\* export_to_json_chunked(db_path, since_date, max_file_size) on a store holding
\* `rows`: the exception raised ("none": the call returns) and the dictionary
\* returned, as the set of its items (suffix <<>> for "").
export_to_json_chunked(rows, since_date, max_file_size) ==
    LET total_count == Cardinality(since(rows, since_date))
        estimated_size == total_count * ESTIMATED_BYTES_PER_RECORD
        single == {[suffix |-> <<>>, records |-> export_to_json(rows, since_date)]}
        max_records_per_file == max_file_size \div ESTIMATED_BYTES_PER_RECORD
        year_months == {<<r.date[1], r.date[2]>> : r \in since(rows, since_date)}
        years == {ym[1] : ym \in year_months}
        per_year == [year \in years |->
                        year_bundles(rows, year, year_months, since_date,
                                     max_records_per_file)]
        result == UNION {per_year[year].bundles : year \in years}
    IN IF estimated_size <= max_file_size THEN [raised |-> "none", bundles |-> single]
       ELSE IF year_months = {} THEN [raised |-> "none", bundles |-> single]
       ELSE IF \E year \in years : per_year[year].raised # "none"
       THEN [raised |-> "ZeroDivisionError", bundles |-> {}]
       ELSE [raised |-> "none", bundles |-> IF result # {} THEN result ELSE single]

\* ------------------------------------------------- push: the export step
MAX_GIST_FILE_SIZE == 7340032   \* 7 * 1024 * 1024

\* The text YYYY-MM-DD of a day of the clock, export_date[:10]; no text for
\* day 0 (get_last_export_date() = None).
date_text(day) == IF day = 0 THEN NoDate ELSE <<2025, 1, day>>

\* Step 1 of push on a store holding `rows`: export_to_json_chunked with the
\* default max_file_size.  The stores followed stay far below that size, so
\* the export is the single bundle "".
chunked_exports(rows, since_day) ==
    LET res == export_to_json_chunked(rows, date_text(since_day), MAX_GIST_FILE_SIZE)
        data == CHOOSE b \in res.bundles : TRUE
        n == Len(data.records)
    IN <<[suffix |-> "", records |-> n,
          newest |-> IF n = 0 THEN 0 ELSE data.records[n].date[3],
          rows |-> data.records]>>

\* A record of today enters the local store of d while no push runs.
SaveRecord(d) ==
    /\ pc[d] = "idle"
    /\ Cardinality(stores[d][d]) < MaxSaved
    /\ stores' = [stores EXCEPT ![d][d] =
                     @ \cup {usage_row(Cardinality(@) + 1, date_text(DateOf(now)))}]
    /\ UNCHANGED <<now, pvars, mvars, req, last_io>>

\* ------------------------------------------------------- pull: the steps
\* The get_file_content calls of pull's two loops, in order: for every requested
\* machine that get_machine finds, each file of get_data_files.
RECURSIVE pull_list(_, _)
pull_list(manifest, machines) ==
    IF machines = <<>> THEN <<>>
    ELSE LET machine_name == Head(machines)
             data_files == IF has_machine(manifest, machine_name)
                           THEN get_data_files(manifest, machine_name) ELSE <<>>
         IN [i \in 1..Len(data_files) |-> <<machine_name, data_files[i]>>]
            \o pull_list(manifest, Tail(machines))

\* pull() up to its first remote call.  `given` is false for machines=None.
PullStart(d, given, machines, token) ==
    /\ pc[d] = "idle"
    /\ budget.pulls[d] > 0
    /\ budget' = [budget EXCEPT !.pulls[d] = @ - 1]
    /\ loc' = [loc EXCEPT ![d] = [NoPush EXCEPT !.cmd = "pull", !.token = token,
                                                !.machines_given = given,
                                                !.machines = IF given THEN machines ELSE <<>>,
                                                !.empty_target =
                                                    \A m \in StoreNames : stores[d][m] = {},
                                                !.status = "running"]]
    /\ pc' = [pc EXCEPT ![d] = IF gist_id[d] = 0 THEN "find_gist" ELSE "pull_manifest"]
    /\ UNCHANGED <<now, gists, gist_id, watermark, blind>>

\* Steps 1 and 2 of pull: _download_manifest and the machines to pull; with
\* nothing to download, the return.
PullManifest(d, ok) ==
    /\ pc[d] = "pull_manifest"
    /\ IF loc[d].token THEN ok \/ budget.fails > 0 ELSE ~ok
    /\ budget' = IF ok \/ ~loc[d].token THEN budget ELSE [budget EXCEPT !.fails = @ - 1]
    /\ LET L == loc[d]
           manifest == download_manifest(gist_id[d], ok, now)
           machines == IF L.machines_given THEN L.machines ELSE list_machines(manifest)
           todo == pull_list(manifest, machines)
           pulled == {i \in 1..Len(machines) :
                         /\ has_machine(manifest, machines[i])
                         /\ get_data_files(manifest, machines[i]) # <<>>}
           M == [L EXCEPT !.calls = @ + calls_made(L), !.manifest = manifest,
                          !.machines = machines, !.todo = todo,
                          !.machines_pulled = Cardinality(pulled)]
       IN IF todo = <<>>
          THEN /\ loc' = [loc EXCEPT ![d] = [M EXCEPT !.status = "success"]]
               /\ pc' = [pc EXCEPT ![d] = "idle"]
          ELSE /\ loc' = [loc EXCEPT ![d] = M]
               /\ pc' = [pc EXCEPT ![d] = "pull_files"]
    /\ UNCHANGED <<now, gists, gist_id, watermark, blind>>

\* json.loads of a file's text: whether it raises.  A text that is no JSON is
\* the record InvalidJson.
json_loads_raises(json_str) == "text" \in DOMAIN json_str

\* Mutant: the bundle is imported with db_path left at its default, the store of
\* the current machine.
machine_db_path_default(d, machine_name) == d

\* storage_dir / f"usage_history_{machine_name}.db": the store of device d that
\* pull imports a file of machine_name into.
machine_db_path(d, machine_name) == machine_name

\* Mutant: the failure of a file leaves the loops.
pull_goes_on_stops(todo, failed) == IF failed THEN <<>> ELSE Tail(todo)

\* The files still to pull after one file was handled: the except clause is
\* inside both loops.
pull_goes_on(todo, failed) == Tail(todo)

\* Step 3: one pass of the inner loop: get_file_content, json.loads and
\* import_from_json into the store of the file's machine.  A failed call, a file
\* that is not in the container, a text that is no JSON and an import that
\* raises are counted as one error each, and the loop goes on.
PullFile(d, ok, fault) ==
    /\ pc[d] = "pull_files"
    /\ LET L == loc[d]
           machine_name == Head(L.todo)[1]
           data_file == Head(L.todo)[2]
           files == gists[gist_id[d]].files
           present == data_file \in DOMAIN files
           parsed == ok /\ ~json_loads_raises(files[data_file])
           db == machine_db_path(d, machine_name)
           res == import_from_json(stores[d][db], files[data_file], FALSE, fault)
           imported == parsed /\ res.raised = "none"
           rest == pull_goes_on(L.todo, ~imported)
           N == [L EXCEPT !.calls = @ + calls_made(L), !.todo = rest,
                          !.requested = Append(@, Head(L.todo)),
                          !.outcomes = Append(@, [failed |-> ~imported,
                                                  record_errors |->
                                                      IF imported THEN res.stats.errors ELSE 0]),
                          !.new_records = IF imported THEN @ + res.stats.new_records ELSE @,
                          !.duplicate_records =
                              IF imported THEN @ + res.stats.duplicate_records ELSE @,
                          !.errors = IF imported THEN @ + res.stats.errors ELSE @ + 1]
       IN /\ IF L.token /\ present THEN ok \/ budget.fails > 0 ELSE ~ok
          /\ IF parsed THEN fault = "none" \/ (budget.fails > 0 /\ fault \in Faults)
             ELSE fault = "none"
          /\ budget' = IF (ok \/ ~L.token \/ ~present) /\ fault = "none" THEN budget
                       ELSE [budget EXCEPT !.fails = @ - 1]
          /\ stores' = IF parsed THEN [stores EXCEPT ![d][db] = res.rows] ELSE stores
          /\ IF rest = <<>>
             THEN /\ loc' = [loc EXCEPT ![d] = [N EXCEPT !.status = "success"]]
                  /\ pc' = [pc EXCEPT ![d] = "idle"]
             ELSE /\ loc' = [loc EXCEPT ![d] = N]
                  /\ pc' = pc
    /\ UNCHANGED <<now, gists, gist_id, watermark, blind>>

\* A further machine "C" pushes a single-file export to container g, its
\* download, add_machine and manifest upload not interleaved with other steps.
EnvPush(g) ==
    /\ budget.env > 0
    /\ g \in 1..Len(gists)
    /\ budget' = [budget EXCEPT !.env = @ - 1]
    /\ LET x == machine_update("C", ExpSingle)
       IN gists' = [gists EXCEPT ![g].manifest =
                       add_machine(@, "C", x.current_file, x.total_records,
                                   x.last_record_date, x.data_files, now),
                                 ![g].files = put(@, x.current_file,
                                                  export_content("C", now, ExpSingle[1]))]
    /\ blind' = behind(g, "C")
    /\ UNCHANGED <<now, pc, loc, gist_id, watermark>>

\* Something outside this program leaves a manifest.json in container g that is
\* no valid manifest.
CorruptManifest(g, data) ==
    /\ budget.env > 0
    /\ g \in 1..Len(gists)
    /\ is_valid(gists[g].manifest)
    /\ budget' = [budget EXCEPT !.env = @ - 1]
    /\ gists' = [gists EXCEPT ![g].manifest = data]
    /\ UNCHANGED <<now, pc, loc, gist_id, watermark, blind>>

\* ------------------------------------------------- GistClient._request
GistClient_MAX_RETRIES == 3
RETRY_DELAY == 2

NoRequest == [state |-> "idle", attempt |-> 0, responses |-> <<>>, sleeps |-> <<>>,
              cause |-> [attempt |-> 0, error |-> "none"], requests |-> 0]

\* What session.request meets in one attempt: a response that is no error
\* status, a 429 (without Retry-After header, with a number of seconds, or with
\* a header int() cannot parse), another 4xx/5xx status, or an exception of the
\* transport.
Responses ==
    {[kind |-> "ok", header |-> "absent", seconds |-> 0],
     [kind |-> "429", header |-> "absent", seconds |-> 0],
     [kind |-> "429", header |-> "bad", seconds |-> 0],
     [kind |-> "http_error", header |-> "absent", seconds |-> 0],
     [kind |-> "exception", header |-> "absent", seconds |-> 0]}
    \cup {[kind |-> "429", header |-> "number", seconds |-> n] : n \in 0..MaxRetryAfter}

\* The exception one attempt ends in inside the try ("none": it does not), given
\* whether the 429 branch goes on to raise_for_status.
raised_in_try(resp, falls_through) ==
    CASE resp.kind = "exception" -> "ConnectionError"
      [] resp.kind = "http_error" -> "HTTPError"
      [] resp.kind = "429" /\ resp.header = "bad" -> "ValueError"
      [] resp.kind = "429" /\ falls_through -> "HTTPError"
      [] OTHER -> "none"

\* Mutant: the test for attempts that remain is always true.
attempts_remain_always(attempt) == TRUE

\* attempt < self.MAX_RETRIES - 1
attempts_remain(attempt) == attempt < GistClient_MAX_RETRIES - 1

\* A client method calls _request.
RequestStart ==
    /\ req.state # "running"
    /\ req.requests < MaxRequests
    /\ req' = [NoRequest EXCEPT !.state = "running", !.requests = req.requests + 1]
    /\ UNCHANGED <<now, pvars, mvars, svars>>

\* One pass of the for loop, or with the range used up the raise after it.
Attempt(resp) ==
    /\ req.state = "running"
    /\ IF req.attempt >= GistClient_MAX_RETRIES
       THEN req' = [req EXCEPT !.state = "raised",
                               !.cause = [attempt |-> 0, error |-> "none"]]
       ELSE LET attempt == req.attempt
                seen == [req EXCEPT !.responses = Append(@, resp), !.attempt = attempt + 1]
                retry_after == IF resp.header = "number" THEN resp.seconds ELSE RETRY_DELAY
                rate_limited == resp.kind = "429" /\ resp.header # "bad"
                e == raised_in_try(resp, ~attempts_remain(attempt))
            IN IF rate_limited /\ attempts_remain(attempt)
               THEN req' = [seen EXCEPT !.sleeps = Append(@, retry_after)]
               ELSE IF e = "none"
               THEN req' = [seen EXCEPT !.state = "returned"]
               ELSE IF attempts_remain(attempt)
               THEN req' = [seen EXCEPT !.sleeps = Append(@, RETRY_DELAY * (attempt + 1))]
               ELSE req' = [seen EXCEPT !.state = "raised",
                                        !.cause = [attempt |-> attempt + 1, error |-> e]]
    /\ UNCHANGED <<now, pvars, mvars, svars>>

\* ------------------------------------------------- Manifest operations spec
\* What push hands to add_machine: a single-file export or a chunked one.
Exports(name) == {machine_update(name, ExpSingle), machine_update(name, ExpChunked)}

NoOp == [op |-> "none", onA |-> TRUE, common |-> {}]

Tick(bound) == /\ now < bound
               /\ now' = now + 1

MAddMachine(onA, name, x) ==
    /\ opsLeft > 0
    /\ LET man == IF onA THEN ma ELSE mb
           res == add_machine(man, name, x.current_file, x.total_records,
                              x.last_record_date, x.data_files, now)
       IN /\ ma' = IF onA THEN res ELSE ma
          /\ mb' = IF onA THEN mb ELSE res
          /\ last' = [op |-> "add_machine", onA |-> onA, common |-> {}]
    /\ opsLeft' = opsLeft - 1
    /\ UNCHANGED <<now, pvars, req, svars>>

MAddBackup(onA, name, b) ==
    /\ opsLeft > 0
    /\ LET man == IF onA THEN ma ELSE mb
           \* ValueError when the machine is not in the manifest: no change
           res == IF has_machine(man, name) THEN add_backup(man, name, b, now) ELSE man
       IN /\ ma' = IF onA THEN res ELSE ma
          /\ mb' = IF onA THEN mb ELSE res
          /\ last' = [op |-> "add_backup", onA |-> onA, common |-> {}]
    /\ opsLeft' = opsLeft - 1
    /\ UNCHANGED <<now, pvars, req, svars>>

MRemoveBackup(onA, name, b) ==
    /\ opsLeft > 0
    /\ LET man == IF onA THEN ma ELSE mb
           res == remove_backup(man, name, b, now)
       IN /\ ma' = IF onA THEN res ELSE ma
          /\ mb' = IF onA THEN mb ELSE res
          /\ last' = [op |-> "remove_backup", onA |-> onA, common |-> {}]
    /\ opsLeft' = opsLeft - 1
    /\ UNCHANGED <<now, pvars, req, svars>>

\* ma := ma.merge_with(mb) (onA) or mb := mb.merge_with(ma).
MMerge(onA, mord, bord) ==
    /\ opsLeft > 0
    /\ LET self == IF onA THEN ma ELSE mb
           other == IF onA THEN mb ELSE ma
           res == merge_with(self, other, mord, bord)
       IN /\ ma' = IF onA THEN res ELSE ma
          /\ mb' = IF onA THEN mb ELSE res
          /\ last' = [op |-> "merge_with", onA |-> onA,
                      common |-> Range(list_machines(self)) \cap Range(list_machines(other))]
    /\ opsLeft' = opsLeft - 1
    /\ UNCHANGED <<now, pvars, req, svars>>

InitPushIdle(containers, marks, pushes, fails, env) ==
    /\ gists = containers
    /\ pc = [d \in Devices |-> "idle"]
    /\ loc = [d \in Devices |-> NoPush]
    /\ gist_id = [d \in Devices |-> 0]
    /\ watermark = marks
    /\ budget = [pushes |-> pushes, pulls |-> [d \in Devices |-> 0], fails |-> fails,
                 env |-> env]
    /\ blind = [d \in Devices |-> FALSE]
    /\ req = NoRequest
    /\ stores = [d \in Devices |-> [m \in StoreNames |-> {}]]
    /\ last_io = NoIO

InitM == /\ now = 1
         /\ InitPushIdle(<<>>, [d \in Devices |-> 0], [d \in Devices |-> 0], 0, 0)
         /\ ma = create_empty(1)
         /\ mb = create_empty(1)
         /\ last = NoOp
         /\ opsLeft = MaxOps

NextM == \/ Tick(MaxTimeM) /\ UNCHANGED <<mvars, pvars, req, svars>>
         \/ \E onA \in BOOLEAN, name \in Machines : \E x \in Exports(name) : MAddMachine(onA, name, x)
         \/ \E onA \in BOOLEAN, name \in Machines, b \in BackupNames : MAddBackup(onA, name, b)
         \/ \E onA \in BOOLEAN, name \in Machines, b \in BackupNames : MRemoveBackup(onA, name, b)
         \/ \E onA \in BOOLEAN, mord \in Perms(Machines), bord \in Perms(BackupNames) : MMerge(onA, mord, bord)

SpecManifest == InitM /\ [][NextM]_vars

\* ------------------------------------------- manifests that hold backups
\* Manifests as pushes with backups leave them: machine A with no backup, with
\* one, and with a second one added after it.
WithBackups ==
    LET x == machine_update("A", ExpSingle)
        none == add_machine(create_empty(1), "A", x.current_file, x.total_records,
                            x.last_record_date, x.data_files, 1)
        one == add_backup(none, "A", "bk1", 1)
    IN {none, one, add_backup(one, "A", "bk2", 1)}

InitG == /\ now = 1
         /\ InitPushIdle(<<>>, [d \in Devices |-> 0], [d \in Devices |-> 0], 0, 0)
         /\ ma \in WithBackups
         /\ mb \in WithBackups
         /\ last = NoOp
         /\ opsLeft = MaxOpsG

SpecMerge == InitG /\ [][NextM]_vars


\* ------------------------------------------------ two devices pushing
\* Both devices push once to a container created earlier (its manifest still
\* empty), and no remote call fails.  A first push has no previous data files,
\* so step 9 (DeleteOld) has nothing to delete and is no step of this
\* specification.
\* Some push is running or still to come.
Active == \E d \in Devices : pc[d] # "idle" \/ budget.pushes[d] > 0

\* Some push has not read the remote manifest for the last time yet.
Unresolved == \E d \in Devices :
                 pc[d] \in {"find_gist", "create_gist", "download", "resolve"}
                 \/ (pc[d] = "idle" /\ budget.pushes[d] > 0)

InitNoManifestOps == /\ ma = create_empty(0)
                     /\ mb = create_empty(0)
                     /\ last = NoOp
                     /\ opsLeft = 0

Init == /\ now = 1
        /\ InitPushIdle(<<[manifest |-> create_empty(0), files |-> NoFiles]>>,
                        [d \in Devices |-> 0], [d \in Devices |-> 1], 0, 0)
        /\ InitNoManifestOps

Next == \/ Tick(MaxTime) /\ Active /\ UNCHANGED <<pvars, mvars, req, svars>>
        \/ \E d \in Devices, force \in BOOLEAN, skip \in BOOLEAN, exp \in ChunkedExports :
              PushStart(d, force, FALSE, skip, exp, TRUE) /\ UNCHANGED <<mvars, req, svars>>
        \/ \E d \in Devices : FindGist(d) /\ UNCHANGED <<mvars, req, svars>>
        \/ \E d \in Devices : Download(d, TRUE) /\ UNCHANGED <<mvars, req, svars>>
        \/ \E d \in Devices, mord \in Perms(Machines), bord \in Perms(BackupNames) :
              Resolve(d, TRUE, mord, bord) /\ UNCHANGED <<mvars, req, svars>>
        \/ \E d \in Devices : Upload(d) /\ UNCHANGED <<mvars, req, svars>>
        \/ \E d \in Devices : UploadManifest(d) /\ UNCHANGED <<mvars, req, svars>>

Spec == Init /\ [][Next]_vars

\* ------------------------- one device pushing against further writers
\* Device A pushes once, either for the first time (no container yet) or after
\* an earlier chunked push of its own; meanwhile a further machine pushes and
\* remote calls may fail.  The further machine's pushes and the clock are
\* followed up to the last read of the remote manifest by A's push.
EarlierPush ==
    LET x == machine_update("A", ExpChunked)
    IN [manifest |-> add_machine(create_empty(1), "A", x.current_file, x.total_records,
                                 x.last_record_date, x.data_files, 1),
        files |-> export_files("A", ExpChunked, 1)]

InitR == /\ now = 1
         /\ \E first \in BOOLEAN :
               InitPushIdle(IF first THEN <<>> ELSE <<EarlierPush>>,
                            [d \in Devices |-> IF d = "A" /\ ~first THEN DateOf(1) ELSE 0],
                            [d \in Devices |-> IF d = "A" THEN 1 ELSE 0],
                            MaxFailsR, MaxEnv)
         /\ InitNoManifestOps

NextR == \/ Tick(MaxTimeR) /\ Unresolved /\ UNCHANGED <<pvars, mvars, req, svars>>
         \/ \E d \in Devices, force \in BOOLEAN, exp \in {ExpEmpty, ExpSingle} :
               PushStart(d, force, FALSE, FALSE, exp, TRUE) /\ UNCHANGED <<mvars, req, svars>>
         \/ \E d \in Devices : FindGist(d) /\ UNCHANGED <<mvars, req, svars>>
         \/ \E d \in Devices : CreateGist(d) /\ UNCHANGED <<mvars, req, svars>>
         \/ \E d \in Devices, ok \in BOOLEAN : Download(d, ok) /\ UNCHANGED <<mvars, req, svars>>
         \/ \E d \in Devices, ok \in BOOLEAN, mord \in Perms({"A", "C"}),
               bord \in Perms(BackupNames) : Resolve(d, ok, mord, bord) /\ UNCHANGED <<mvars, req, svars>>
         \/ \E d \in Devices : Upload(d) /\ UNCHANGED <<mvars, req, svars>>
         \/ \E d \in Devices : DeleteOld(d) /\ UNCHANGED <<mvars, req, svars>>
         \/ \E d \in Devices : UploadManifest(d) /\ UNCHANGED <<mvars, req, svars>>
         \/ \E d \in Devices : RemoteFail(d) /\ UNCHANGED <<mvars, req, svars>>
         \/ \E g \in 1..Len(gists) : EnvPush(g) /\ Unresolved /\ UNCHANGED <<mvars, req, svars>>

SpecResolve == InitR /\ [][NextR]_vars

\* ------------------------------ one device pushing repeatedly, with backups
\* Device A pushes twice after an earlier chunked push of its own,
\* with or without createBackup, to a container whose manifest keeps backups
\* for 0 days (the default) or for 1 day; remote calls may fail.
Retentions == {0, 1}

\* The backup names some manifest or container holds: what a set() of backups
\* may have to order.
KnownBackups ==
    UNION ({Range(backups_of(e)) : e \in UNION {Range(gists[g].manifest.machines) :
                                 g \in {h \in 1..Len(gists) : is_valid(gists[h].manifest)}}}
           \cup {Range(backups_of(e)) : e \in UNION {Range(loc[d].manifest.machines) :
                                                     d \in Devices}})

InitB == /\ now = 1
         /\ \E days \in Retentions :
               InitPushIdle(<<[EarlierPush EXCEPT !.manifest.backup_retention_days = days]>>,
                            [d \in Devices |-> IF d = "A" THEN DateOf(1) ELSE 0],
                            [d \in Devices |-> IF d = "A" THEN 2 ELSE 0],
                            MaxFailsB, 0)
         /\ InitNoManifestOps

NextB == \/ Tick(MaxTimeB) /\ Active /\ UNCHANGED <<pvars, mvars, req, svars>>
         \/ \E d \in Devices, force \in BOOLEAN, create_backup \in BOOLEAN,
               exp \in ChunkedExports :
               PushStart(d, force, create_backup, FALSE, exp, TRUE) /\ UNCHANGED <<mvars, req, svars>>
         \/ \E d \in Devices : FindGist(d) /\ UNCHANGED <<mvars, req, svars>>
         \/ \E d \in Devices, ok \in BOOLEAN : Download(d, ok) /\ UNCHANGED <<mvars, req, svars>>
         \/ \E d \in Devices, ok \in BOOLEAN, mord \in Perms({"A"}),
               bord \in Perms(KnownBackups) : Resolve(d, ok, mord, bord) /\ UNCHANGED <<mvars, req, svars>>
         \/ \E d \in Devices, failed \in {"none", "read", "check", "upload"} :
               Backup(d, failed) /\ UNCHANGED <<mvars, req, svars>>
         \/ \E d \in Devices : Upload(d) /\ UNCHANGED <<mvars, req, svars>>
         \/ \E d \in Devices : DeleteOld(d) /\ UNCHANGED <<mvars, req, svars>>
         \/ \E d \in Devices : UploadManifest(d) /\ UNCHANGED <<mvars, req, svars>>
         \/ \E d \in Devices, ok \in BOOLEAN : Prune(d, ok) /\ UNCHANGED <<mvars, req, svars>>
         \/ \E d \in Devices : RemoteFail(d) /\ UNCHANGED <<mvars, req, svars>>

SpecBackup == InitB /\ [][NextB]_vars

\* ------------------------- one device pushing to a corrupted manifest
\* The container holds the manifest of an earlier push of machine C; device A
\* pushes once, and before or during that push manifest.json is replaced by a
\* text that is no valid manifest.
EnvEarlierPush ==
    LET x == machine_update("C", ExpSingle)
    IN [manifest |-> add_machine(create_empty(1), "C", x.current_file, x.total_records,
                                 x.last_record_date, x.data_files, 1),
        files |-> export_files("C", ExpSingle, 1)]

InitC == /\ now = 1
         /\ InitPushIdle(<<EnvEarlierPush>>, [d \in Devices |-> 0],
                         [d \in Devices |-> IF d = "A" THEN 1 ELSE 0], 0, 1)
         /\ InitNoManifestOps

NextC == \/ Tick(MaxTimeC) /\ Unresolved /\ UNCHANGED <<pvars, mvars, req, svars>>
         \/ \E d \in Devices, force \in BOOLEAN, skip \in BOOLEAN, exp \in ChunkedExports :
               PushStart(d, force, FALSE, skip, exp, TRUE) /\ UNCHANGED <<mvars, req, svars>>
         \/ \E d \in Devices : FindGist(d) /\ UNCHANGED <<mvars, req, svars>>
         \/ \E d \in Devices : Download(d, TRUE) /\ UNCHANGED <<mvars, req, svars>>
         \/ \E d \in Devices, mord \in Perms({"A", "C"}), bord \in Perms(KnownBackups) :
               Resolve(d, TRUE, mord, bord) /\ UNCHANGED <<mvars, req, svars>>
         \/ \E d \in Devices : Upload(d) /\ UNCHANGED <<mvars, req, svars>>
         \/ \E d \in Devices : UploadManifest(d) /\ UNCHANGED <<mvars, req, svars>>
         \/ \E g \in 1..Len(gists), data \in {InvalidJson, MissingField} :
               CorruptManifest(g, data) /\ UNCHANGED <<mvars, req, svars>>

SpecCorrupt == InitC /\ [][NextC]_vars

\* ------------------------------------- push and pull, with or without token
\* The container holds a chunked export of machine A and a single-file export
\* of machine C.  Device A pushes once and pulls once, device B pulls once;
\* every command runs with or without a configured token, on a SyncManager
\* built with the gist_id or without it.
PulledContainer ==
    LET x == machine_update("C", ExpSingle)
    IN [manifest |-> add_machine(EarlierPush.manifest, "C", x.current_file, x.total_records,
                                 x.last_record_date, x.data_files, 1),
        files |-> put(EarlierPush.files, x.current_file,
                      export_content("C", 1, ExpSingle[1]))]

\* What pull may be asked for: None, or a list of names ("Z" is in no manifest).
MachineLists == {<<"A">>, <<"C", "A">>, <<"Z">>, <<"Z", "A", "C">>}

InitP == /\ now = 2
         /\ gists = <<PulledContainer>>
         /\ pc = [d \in Devices |-> "idle"]
         /\ loc = [d \in Devices |-> NoPush]
         /\ \E known \in BOOLEAN : gist_id = [d \in Devices |-> IF known THEN 1 ELSE 0]
         /\ watermark = [d \in Devices |-> IF d = "A" THEN DateOf(1) ELSE 0]
         /\ budget = [pushes |-> [d \in Devices |-> IF d = "A" THEN 1 ELSE 0],
                      pulls |-> [d \in Devices |-> 1], fails |-> MaxFailsP, env |-> 0]
         /\ blind = [d \in Devices |-> FALSE]
         /\ req = NoRequest
         /\ stores = [d \in Devices |-> [m \in StoreNames |-> {}]]
         /\ last_io = NoIO
         /\ InitNoManifestOps

NextP == \/ \E d \in Devices, given \in BOOLEAN, machines \in MachineLists, token \in BOOLEAN :
               PullStart(d, given, machines, token) /\ UNCHANGED <<mvars, req, svars>>
         \/ \E d \in Devices, force \in BOOLEAN, exp \in ChunkedExports, token \in BOOLEAN :
               PushStart(d, force, FALSE, FALSE, exp, token) /\ UNCHANGED <<mvars, req, svars>>
         \/ \E d \in Devices : FindGist(d) /\ UNCHANGED <<mvars, req, svars>>
         \/ \E d \in Devices, ok \in BOOLEAN : Download(d, ok) /\ UNCHANGED <<mvars, req, svars>>
         \/ \E d \in Devices, ok \in BOOLEAN, mord \in Perms({"A", "C"}),
               bord \in Perms(KnownBackups) : Resolve(d, ok, mord, bord) /\ UNCHANGED <<mvars, req, svars>>
         \/ \E d \in Devices : Upload(d) /\ UNCHANGED <<mvars, req, svars>>
         \/ \E d \in Devices : DeleteOld(d) /\ UNCHANGED <<mvars, req, svars>>
         \/ \E d \in Devices : UploadManifest(d) /\ UNCHANGED <<mvars, req, svars>>
         \/ \E d \in Devices : RemoteFail(d) /\ UNCHANGED <<mvars, req, svars>>
         \/ \E d \in Devices : ClientRaises(d) /\ UNCHANGED <<mvars, req, svars>>
         \/ \E d \in Devices, ok \in BOOLEAN : PullManifest(d, ok) /\ UNCHANGED <<mvars, req, svars>>
         \/ \E d \in Devices, ok \in BOOLEAN, fault \in Faults :
               PullFile(d, ok, fault) /\ UNCHANGED <<mvars, req, last_io>>

SpecPull == InitP /\ [][NextP]_vars

\* --------------------------------------- pull into the local stores
\* A record of a bundle that lacks message_uuid.
without_message_uuid ==
    [f \in RequiredRecordFields \ {"message_uuid"} |-> usage_record(0)[f]]

\* What the data file of machine C may hold when device B pulls: the bundle C
\* exported, a text that is no JSON, a bundle without "records", a bundle with a
\* record that lacks message_uuid, and a bundle with a record that is no object.
PulledFiles ==
    LET c == export_content("C", 1, ExpSingle[1])
        more == usage_record(<<"C", 1, 2>>)
    IN {c, InvalidJson, [machine_name |-> "C", export_date |-> 1],
        [c EXCEPT !.records = c.records \o <<without_message_uuid, more>>],
        [c EXCEPT !.records = c.records \o <<NotAnObject, more>>]}

InitI == /\ now = 2
         /\ \E c \in PulledFiles :
               gists = <<[PulledContainer EXCEPT !.files = put(@, <<"C", "">>, c)]>>
         /\ pc = [d \in Devices |-> "idle"]
         /\ loc = [d \in Devices |-> NoPush]
         /\ \E known \in BOOLEAN : gist_id = [d \in Devices |-> IF known THEN 1 ELSE 0]
         /\ watermark = [d \in Devices |-> 0]
         /\ budget = [pushes |-> [d \in Devices |-> 0],
                      pulls |-> [d \in Devices |-> IF d = "B" THEN MaxPullsI ELSE 0],
                      fails |-> MaxFailsI, env |-> 0]
         /\ blind = [d \in Devices |-> FALSE]
         /\ req = NoRequest
         /\ stores = [d \in Devices |-> [m \in StoreNames |-> {}]]
         /\ last_io = NoIO
         /\ InitNoManifestOps

NextI == \/ \E d \in Devices, given \in BOOLEAN, machines \in MachineLists :
               PullStart(d, given, machines, TRUE) /\ UNCHANGED <<mvars, req, svars>>
         \/ \E d \in Devices : FindGist(d) /\ UNCHANGED <<mvars, req, svars>>
         \/ \E d \in Devices : RemoteFail(d) /\ UNCHANGED <<mvars, req, svars>>
         \/ \E d \in Devices, ok \in BOOLEAN :
               PullManifest(d, ok) /\ UNCHANGED <<mvars, req, svars>>
         \/ \E d \in Devices, ok \in BOOLEAN, fault \in Faults :
               PullFile(d, ok, fault) /\ UNCHANGED <<mvars, req, last_io>>

SpecPullImport == InitI /\ [][NextI]_vars

\* ------------------------------------------- pushes of what a store holds
InitS == /\ now = 1
         /\ InitPushIdle(<<>>, [d \in Devices |-> 0],
                         [d \in Devices |-> IF d = "A" THEN MaxPushesS ELSE 0], 0, 0)
         /\ InitNoManifestOps

NextS == \/ Tick(MaxTimeS) /\ UNCHANGED <<pvars, mvars, req, svars>>
         \/ SaveRecord("A")
         \/ \E force \in BOOLEAN :
               PushStart("A", force, FALSE, FALSE,
                         chunked_exports(stores["A"]["A"],
                                         IF force THEN 0 ELSE watermark["A"]), TRUE)
               /\ UNCHANGED <<mvars, req, svars>>
         \/ FindGist("A") /\ UNCHANGED <<mvars, req, svars>>
         \/ CreateGist("A") /\ UNCHANGED <<mvars, req, svars>>
         \/ Download("A", TRUE) /\ UNCHANGED <<mvars, req, svars>>
         \/ \E mord \in Perms({"A"}) :
               Resolve("A", TRUE, mord, <<>>) /\ UNCHANGED <<mvars, req, svars>>
         \/ Upload("A") /\ UNCHANGED <<mvars, req, svars>>
         \/ UploadManifest("A") /\ UNCHANGED <<mvars, req, svars>>

SpecSync == InitS /\ [][NextS]_vars

\* ------------------------------------------ first contact with the remote
\* No container with the sync description exists; every device has no gist_id
\* and may push once and pull once.
InitF == /\ now = 1
         /\ gists = <<>>
         /\ pc = [d \in Devices |-> "idle"]
         /\ loc = [d \in Devices |-> NoPush]
         /\ gist_id = [d \in Devices |-> 0]
         /\ watermark = [d \in Devices |-> 0]
         /\ budget = [pushes |-> [d \in Devices |-> 1], pulls |-> [d \in Devices |-> 1],
                      fails |-> 0, env |-> 0]
         /\ blind = [d \in Devices |-> FALSE]
         /\ req = NoRequest
         /\ stores = [d \in Devices |-> [m \in StoreNames |-> {}]]
         /\ last_io = NoIO
         /\ InitNoManifestOps

NextF == \/ Tick(MaxTimeF) /\ Active /\ UNCHANGED <<pvars, mvars, req, svars>>
         \/ \E d \in Devices : PushStart(d, FALSE, FALSE, FALSE, ExpSingle, TRUE)
                                  /\ UNCHANGED <<mvars, req, svars>>
         \/ \E d \in Devices : PullStart(d, FALSE, <<>>, TRUE) /\ UNCHANGED <<mvars, req, svars>>
         \/ \E d \in Devices : FindGist(d) /\ UNCHANGED <<mvars, req, svars>>
         \/ \E d \in Devices : CreateGist(d) /\ UNCHANGED <<mvars, req, svars>>
         \/ \E d \in Devices : Download(d, TRUE) /\ UNCHANGED <<mvars, req, svars>>
         \/ \E d \in Devices, mord \in Perms(Machines) :
               Resolve(d, TRUE, mord, <<>>) /\ UNCHANGED <<mvars, req, svars>>
         \/ \E d \in Devices : Upload(d) /\ UNCHANGED <<mvars, req, svars>>
         \/ \E d \in Devices : UploadManifest(d) /\ UNCHANGED <<mvars, req, svars>>
         \/ \E d \in Devices : PullManifest(d, TRUE) /\ UNCHANGED <<mvars, req, svars>>
         \/ \E d \in Devices : PullFile(d, TRUE, "none") /\ UNCHANGED <<mvars, req, last_io>>

SpecFirstContact == InitF /\ [][NextF]_vars

\* ------------------------------------------------- imports into one store
\* What a bundle may hold as a record: two records with different keys, a
\* record without message_uuid, and values that are no object.
RecordValues == {usage_record(<<"A", 1, 1>>), usage_record(<<"A", 1, 2>>),
                 without_message_uuid, NotAnObject, ANumber}

Bundles ==
    {[machine_name |-> "A", export_date |-> 1, records |-> records] :
        records \in UNION {[1..n -> RecordValues] : n \in 0..MaxBundleLen}}
    \cup {[machine_name |-> "A", export_date |-> 1]}

\* import_from_json(bundle, db_path, dry_run) on the store of machine A of
\* device A, with the statement the environment makes fail, if any (a dry run
\* makes none of them).  An import is followed, and then an import of the same
\* bundle again.
Import(bundle, dry_run, fault) ==
    /\ last_io.op = "import" => (last_io.prev = NoIO /\ bundle = last_io.bundle)
    /\ dry_run => fault = "none"
    /\ LET rows == stores["A"]["A"]
           res == import_from_json(rows, bundle, dry_run, fault)
       IN /\ stores' = [stores EXCEPT !["A"]["A"] = res.rows]
          /\ last_io' = [op |-> "import",
                         bundle |-> bundle, dry_run |-> dry_run, fault |-> fault,
                         before |-> rows, stats |-> res.stats, raised |-> res.raised,
                         prev |-> IF last_io.op = "import"
                                  THEN [last_io EXCEPT !.prev = NoIO] ELSE NoIO]
    /\ UNCHANGED <<now, pvars, mvars, req>>

\* The store holds what earlier imports left in it.
InitJ == /\ now = 1
         /\ gists = <<>>
         /\ pc = [d \in Devices |-> "idle"]
         /\ loc = [d \in Devices |-> NoPush]
         /\ gist_id = [d \in Devices |-> 0]
         /\ watermark = [d \in Devices |-> 0]
         /\ budget = [pushes |-> [d \in Devices |-> 0], pulls |-> [d \in Devices |-> 0],
                      fails |-> 0, env |-> 0]
         /\ blind = [d \in Devices |-> FALSE]
         /\ req = NoRequest
         /\ \E rows \in SUBSET {r \in RecordValues : has_required_fields(r)} :
               stores = [d \in Devices |-> [m \in StoreNames |->
                            IF d = "A" /\ m = "A" THEN rows ELSE {}]]
         /\ last_io = NoIO
         /\ InitNoManifestOps

NextJ == \E bundle \in Bundles, dry_run \in BOOLEAN, fault \in Faults :
            Import(bundle, dry_run, fault)

SpecImport == InitJ /\ [][NextJ]_vars

\* ------------------------------------------------- exports of one store
\* The dates of the rows of the store and of since_date, and the file sizes
\* asked for: less than one record, one record, two, nearly three, four.
Dates == {<<y, m, d>> : y \in {2024, 2025}, m \in {1, 2}, d \in {1, 2}}
FileSizes == {549, 550, 1100, 1649, 2200}

\* The stores the exporter may find: up to MaxRows rows written in the order
\* of their dates.
LocalStores ==
    UNION {{ {usage_row(i, dates[i]) : i \in 1..n} :
               dates \in {f \in [1..n -> Dates] :
                             \A i \in 1..n : i < n => date_le(f[i], f[i + 1])} } :
           n \in 0..MaxRows}

\* export_to_json_chunked(db_path, since_date, max_file_size) on the store of
\* machine A of device A.  One export of the store is followed.
Export(since_date, max_file_size) ==
    /\ last_io = NoIO
    /\ LET rows == stores["A"]["A"]
           res == export_to_json_chunked(rows, since_date, max_file_size)
       IN last_io' = [op |-> "export", since_date |-> since_date,
                      max_file_size |-> max_file_size,
                      raised |-> res.raised, bundles |-> res.bundles]
    /\ UNCHANGED <<now, pvars, mvars, req, stores>>

InitX == /\ now = 1
         /\ gists = <<>>
         /\ pc = [d \in Devices |-> "idle"]
         /\ loc = [d \in Devices |-> NoPush]
         /\ gist_id = [d \in Devices |-> 0]
         /\ watermark = [d \in Devices |-> 0]
         /\ budget = [pushes |-> [d \in Devices |-> 0], pulls |-> [d \in Devices |-> 0],
                      fails |-> 0, env |-> 0]
         /\ blind = [d \in Devices |-> FALSE]
         /\ req = NoRequest
         /\ \E rows \in LocalStores :
               stores = [d \in Devices |-> [m \in StoreNames |->
                            IF d = "A" /\ m = "A" THEN rows ELSE {}]]
         /\ last_io = NoIO
         /\ InitNoManifestOps

NextX == \E since_date \in {NoDate} \cup Dates, max_file_size \in FileSizes :
            Export(since_date, max_file_size)

SpecExport == InitX /\ [][NextX]_vars

\* ------------------------------------------------- remote calls retried
InitQ == /\ now = 1
         /\ InitPushIdle(<<>>, [d \in Devices |-> 0], [d \in Devices |-> 0], 0, 0)
         /\ InitNoManifestOps

NextQ == \/ RequestStart
         \/ \E resp \in Responses : Attempt(resp)

SpecRequest == InitQ /\ [][NextQ]_vars

\* ------------------------------------------------ claims on the Manifest
Names(man) == Range(list_machines(man))
EntrySet(man) == Range(man.machines)
NoDup(s) == \A i, j \in 1..Len(s) : s[i] = s[j] => i = j
\* Two entries agree on every field but backups (data_files present or absent alike).
SameButBackups(x, y) == [x EXCEPT !.backups = <<>>] = [y EXCEPT !.backups = <<>>]

\* The step just taken is a merge: self.merge_with(other) = res.
MergeStep == opsLeft' = opsLeft - 1 /\ last'.op = "merge_with"
MSelf == IF last'.onA THEN ma ELSE mb
MOther == IF last'.onA THEN mb ELSE ma
MRes == IF last'.onA THEN ma' ELSE mb'

\* C5: merging manifests with disjoint machine names keeps exactly the machines
\* of both, every entry unchanged, and the merge the other way round (under any
\* iteration order) has the same set of entries.
C5_MergeDisjoint ==
    [][(MergeStep /\ Names(MSelf) \cap Names(MOther) = {}) =>
          /\ EntrySet(MRes) = EntrySet(MSelf) \cup EntrySet(MOther)
          /\ Len(MRes.machines) = Cardinality(Names(MSelf) \cup Names(MOther))
          /\ \A mord \in Perms(Machines), bord \in Perms(BackupNames) :
                EntrySet(merge_with(MOther, MSelf, mord, bord)) = EntrySet(MRes)]_vars

C5_Witness ==
    /\ last.op = "merge_with" /\ last.common = {}
    /\ Len(ma.machines) = 2 /\ Len(mb.machines) = 1
    /\ \E i \in 1..2 : ma.machines[i].backups # <<>>

\* C6: for a machine in both inputs the merged entry is the entry with the later
\* last_sync (all fields but backups), and its backups are the duplicate-free
\* union of the two backups lists.
C6_MergeRecency ==
    [][MergeStep =>
          \A name \in Names(MSelf) \cap Names(MOther) :
             LET sm == get_machine(MSelf, name)
                 om == get_machine(MOther, name)
                 rm == get_machine(MRes, name)
             IN /\ sm.last_sync > om.last_sync => SameButBackups(rm, sm)
                /\ om.last_sync > sm.last_sync => SameButBackups(rm, om)
                /\ SameButBackups(rm, sm) \/ SameButBackups(rm, om)
                /\ Range(rm.backups) = Range(sm.backups) \cup Range(om.backups)
                /\ NoDup(rm.backups)]_vars

\* After ma := ma.merge_with(mb): machine A was in both, the merged entry carries
\* the later last_sync (that of mb's entry) and backups that mb's entry lacks.
C6_Witness ==
    /\ last.op = "merge_with" /\ last.onA /\ "A" \in last.common
    /\ has_machine(ma, "A") /\ has_machine(mb, "A")
    /\ get_machine(ma, "A").last_sync = 2
    /\ get_machine(mb, "A").last_sync = 2
    /\ get_machine(mb, "A").backups = <<>>
    /\ get_machine(ma, "A").backups # <<>>

\* C7: the merged manifest's last_updated is the maximum of the inputs', so it
\* is never below the last_updated of the manifest the merge was applied to.
C7_MergeLastUpdated ==
    [][MergeStep =>
          /\ MRes.last_updated = Max(MSelf.last_updated, MOther.last_updated)
          /\ MRes.last_updated >= MSelf.last_updated
          /\ MRes.last_updated >= MOther.last_updated]_vars

C7_Witness ==
    /\ last.op = "merge_with" /\ last.onA
    /\ ma.last_updated = 2 /\ mb.last_updated = 1

\* C8: machine_name is unique within machines[] of every manifest built from an
\* empty one by add_machine, add_backup, remove_backup and merge_with.
C8_UniqueMachineName == NoDup(list_machines(ma)) /\ NoDup(list_machines(mb))

C8_Witness ==
    /\ last.op = "merge_with" /\ last.common # {}
    /\ Len(ma.machines) = 2 /\ Len(mb.machines) = 2

\* ---------------------------------------------------- claims on push
Succeeded(d) == loc[d].status = "success"

\* C1, granted the window that remains once the conflict check has passed: once
\* both devices' pushes, run with conflict checking, have returned success, the
\* remote manifest holds the entries of both machines, unless a push missed a
\* manifest upload of the other that landed only after its resolver returned.
\* (Weaker than the claim, which grants no interleaving at all.)
C1_BothEntriesAfterBothPushes ==
    (\A d \in Devices : /\ Succeeded(d) /\ ~loc[d].skip_conflict_check
                        /\ blind[d] => loc[d].missed_at_check)
        => Devices \subseteq Names(gists[1].manifest)

\* C2: on the first fetch of the resolver a conflict is declared exactly when
\* the remote last_updated is strictly newer than the last_updated the local
\* manifest had when it was downloaded (before add_machine changed it).
C2_ConflictIffNewerThanSnapshot ==
    \A d \in Devices :
        loc[d].fetches = 1 => (loc[d].conflict <=> loc[d].remote_timestamp > loc[d].snapshot)

\* C3: the resolver fetches the remote manifest at most 4 times, merges after
\* each of the first 3 conflicts, raises ConflictError exactly when the 4th
\* consecutive fetch finds a conflict as well, and otherwise returns after a
\* fetch that found none.
C3_ResolverBounded ==
    \A d \in Devices :
        LET L == loc[d]
        IN /\ L.fetches <= 4 /\ L.merges <= 3
           /\ pc[d] = "resolve" => L.fetches <= 3 /\ L.merges = L.fetches
           /\ L.status = "ConflictError" <=> (L.fetches = 4 /\ L.merges = 3 /\ L.conflict)
           /\ (pc[d] # "resolve" /\ L.fetches > 0 /\ L.status # "ConflictError")
                 => ~L.conflict /\ L.merges = L.fetches - 1

C3_Witness ==
    \E d \in Devices : loc[d].status = "ConflictError" /\ loc[d].fetches = 4

\* C4: the ConflictError raised names the two timestamps that were compared.
C4_ErrorNamesBothTimestamps ==
    \A d \in Devices :
        loc[d].status = "ConflictError" =>
            /\ \E i \in 1..Len(loc[d].error) :
                  /\ loc[d].error[i].name = "local_timestamp"
                  /\ loc[d].error[i].value = loc[d].local_timestamp
            /\ \E i \in 1..Len(loc[d].error) :
                  /\ loc[d].error[i].name = "remote_timestamp"
                  /\ loc[d].error[i].value = loc[d].remote_timestamp

\* C9: in the manifest a push is about to upload and in every manifest
\* uploaded, an entry with data_files has current_file = data_files[0]; the
\* pushing machine's entry has data_files exactly when the export is chunked
\* (several files, or one with a suffix), and its current_file is the first
\* file the push uploads.
C9_CurrentFileIsFirstDataFile ==
    /\ \A g \in 1..Len(gists) : \A e \in EntrySet(gists[g].manifest) :
          "data_files" \in DOMAIN e => e.current_file = e.data_files[1]
    /\ \A d \in Devices :
          pc[d] = "upload_manifest" =>
             LET e == get_machine(loc[d].manifest, d)
                 exp == loc[d].exp
                 chunked == Len(exp) > 1 \/ exp[1].suffix # ""
             IN /\ \A o \in EntrySet(loc[d].manifest) :
                      "data_files" \in DOMAIN o => o.current_file = o.data_files[1]
                /\ ("data_files" \in DOMAIN e) <=> chunked
                /\ e.current_file = <<d, exp[1].suffix>>
                /\ chunked => e.data_files = [i \in 1..Len(exp) |-> <<d, exp[i].suffix>>]

\* The remote manifest lists one machine with a chunked export and one with a
\* single file.
C9_Witness ==
    /\ \E e \in EntrySet(gists[1].manifest) : "data_files" \in DOMAIN e
    /\ \E e \in EntrySet(gists[1].manifest) : "data_files" \notin DOMAIN e

\* C10: a push with force = false whose export has no record returns
\* nothing_to_sync at once, having made no remote call and with the watermark
\* it started from.
C10_NothingToSyncTouchesNothing ==
    \A d \in Devices :
        LET L == loc[d]
        IN (L.status # "none" /\ ~L.force /\ \A i \in 1..Len(L.exp) : L.exp[i].records = 0)
              => /\ L.status = "nothing_to_sync" /\ pc[d] = "idle"
                 /\ L.calls = 0
                 /\ watermark[d] = L.since_date

\* Such a push returned while the device holds the watermark of an earlier push.
C10_Witness ==
    \E d \in Devices :
        loc[d].status = "nothing_to_sync" /\ watermark[d] = 1 /\ gists # <<>>

\* ------------------------------------ claims on push with backups
\* The remote writes push d has made are data-file uploads, then deletions, then
\* the manifest: helper positions in loc[d].writes.
WritesOf(d, call) == {i \in 1..Len(loc[d].writes) : loc[d].writes[i].call = call}

\* C11: in every push each data file is uploaded in a call of its own, the
\* previous data files that are not in the new file set are deleted after all
\* uploads, and the manifest is uploaded only after every data file it lists for
\* this machine was uploaded and the old files were deleted.
C11_RemoteWriteOrder ==
    \A d \in Devices :
        LET W == loc[d].writes
            new_files == Range(file_names(d, loc[d].exp))
            files_to_delete == Range(loc[d].old_data_files) \ new_files
        IN /\ \A i \in WritesOf(d, "data") : Cardinality(W[i].files) = 1
           /\ \A i \in WritesOf(d, "data"), j \in WritesOf(d, "delete") : i < j
           /\ \A i \in WritesOf(d, "data") \cup WritesOf(d, "delete"),
                 j \in WritesOf(d, "manifest") : i < j
           /\ \A j \in WritesOf(d, "manifest") :
                 /\ Range(get_data_files(loc[d].manifest, d)) = new_files
                 /\ \A f \in new_files : \E i \in WritesOf(d, "data") : W[i].files = {f}
                 /\ files_to_delete # {} =>
                       \E i \in WritesOf(d, "delete") : W[i].files = files_to_delete

\* A push of two chunks that replaced a single file: two uploads, the deletion,
\* the manifest.
C11_Witness ==
    \E d \in Devices :
        /\ loc[d].status = "success"
        /\ Cardinality(WritesOf(d, "data")) = 2
        /\ WritesOf(d, "delete") # {}
        /\ WritesOf(d, "manifest") # {}

\* The backups the remote manifest of d's container lists for machine d.
RemoteBackups(d) ==
    LET man == gists[gist_id[d]].manifest
    IN IF has_machine(man, d) THEN Range(backups_of(get_machine(man, d))) ELSE {}

\* C12: after a successful push that pruned old backups of its machine, the
\* pruned backups are in the container no more and the remote manifest lists
\* them for this machine no more.
C12_PrunedBackupsGone ==
    \A d \in Devices :
        (loc[d].status = "success" /\ WritesOf(d, "prune") # {}) =>
            \A b \in Range(loc[d].old_backups) :
                /\ b \notin DOMAIN gists[gist_id[d]].files
                /\ b \notin RemoteBackups(d)

C14_SkipBypassesResolver ==
    [][\A d \in Devices :
          loc'[d].skip_conflict_check =>
             /\ loc'[d].fetches = 0 /\ loc'[d].merges = 0
             /\ loc'[d].status # "ConflictError" /\ pc'[d] # "resolve"
             /\ WritesOf(d, "manifest") = {} /\ loc'[d].writes # loc[d].writes
                /\ loc'[d].writes[Len(loc'[d].writes)].call = "manifest"
                   => gists'[gist_id[d]].manifest = loc[d].manifest]_vars

\* A push with skip_conflict_check succeeded and the remote manifest is its own,
\* after the other device had uploaded a manifest with a later last_updated.
C14_Witness ==
    \E d, o \in Devices :
        /\ loc[d].skip_conflict_check /\ loc[d].status = "success" /\ blind[d]
        /\ loc[o].status = "success"
        /\ loc[o].manifest.last_updated > loc[d].manifest.last_updated
        /\ gists[1].manifest = loc[d].manifest

\* The backup files of machine name dated day that container g holds.
BackupsOfDay(g, name, day) ==
    {f \in DOMAIN gists[g].files : Len(f) = 3 /\ f[1] = name /\ f[3] = day}

\* C15: whatever pushes with createBackup are made on one calendar day, no
\* container holds more than one backup of a machine for that day; a backup step
\* that finds today's backup in the container writes nothing and reports
\* backup_created = false, and otherwise the backup holds the content the
\* previous primary file had and the manifest to upload lists it.
C15_OneBackupPerMachinePerDay ==
    [][/\ \A g \in 1..Len(gists'), name \in Machines, day \in 1..DateOf(now') :
             Cardinality(BackupsOfDay(g, name, day)') <= 1
       /\ \A d \in Devices :
             (pc[d] = "backup" /\ pc'[d] # "backup") =>
                LET g == gist_id[d]
                    current_filename == loc[d].old_data_files[1]
                    today == backup_name(current_filename, now)
                IN IF BackupsOfDay(g, d, DateOf(now)) # {}
                   THEN gists' = gists /\ ~loc'[d].backup_created
                   ELSE loc'[d].backup_created =>
                           /\ gists'[g].files[today] = gists[g].files[current_filename]
                           /\ today \in Range(backups_of(get_machine(loc'[d].manifest, d)))]_vars

\* C16: a backup step or a prune step in which a remote call fails leaves the
\* backups list of the manifest as it was, and the push goes on: to its uploads
\* after the backup step, to status success after the prune step.
C16_BackupFailuresSwallowed ==
    [][\A d \in Devices :
          /\ (pc[d] = "backup" /\ loc'[d].backup_failed # "none") =>
                /\ loc'[d].manifest = loc[d].manifest
                /\ pc'[d] = "upload"
          /\ (pc[d] = "prune" /\ loc'[d].prune_failed) =>
                /\ loc'[d].manifest = loc[d].manifest
                /\ loc'[d].status = "success"]_vars

\* C17: a push that read a manifest.json that is no valid manifest from a
\* container that holds one ends with ManifestError and has uploaded no manifest.
C17_CorruptManifestIsHardError ==
    \A d \in Devices :
        (loc[d].read_invalid /\ pc[d] = "idle") =>
            /\ loc[d].status = "ManifestError"
            /\ WritesOf(d, "manifest") = {}

\* ----------------------------------------------- claims on token and pull
\* The step just taken belongs to a command of device d that runs without a
\* configured token.
NoTokenStep(d) == loc'[d] # loc[d] /\ ~loc'[d].token

\* C18: without a configured credential push and pull fail with TokenError
\* before any network call: no request is made, the remote container and the
\* local watermark stay as they are, and the command that ends (other than a
\* push with nothing to sync) ends in TokenError.
C18_NoTokenIsTokenError ==
    [][\A d \in Devices :
          NoTokenStep(d) =>
             /\ loc'[d].calls = 0
             /\ gists' = gists
             /\ watermark' = watermark
             /\ (pc'[d] = "idle" /\ loc'[d].status # "nothing_to_sync")
                   => loc'[d].status = "TokenError"]_vars

\* The files the specification names for a pull of `machines` from manifest
\* `man`: per machine its data_files when the entry has a non-empty list, else
\* its current_file; nothing for a name without an entry.
RECURSIVE C20_Files(_, _)
C20_Files(man, machines) ==
    IF machines = <<>> THEN <<>>
    ELSE LET entries == SelectSeq(man.machines, LAMBDA m : m.machine_name = Head(machines))
             files == IF entries = <<>> THEN <<>>
                      ELSE IF "data_files" \in DOMAIN entries[1] /\ entries[1].data_files # <<>>
                      THEN entries[1].data_files
                      ELSE <<entries[1].current_file>>
         IN [i \in 1..Len(files) |-> <<Head(machines), files[i]>>]
            \o C20_Files(man, Tail(machines))

\* C20: a pull that has returned requested, for every machine it was asked for,
\* exactly the files of the machine's data_files list when that list is present
\* and non-empty, and exactly its current_file otherwise, each once and in
\* that order.
C20_PullDownloadsDataFiles ==
    \A d \in Devices :
       (loc[d].cmd = "pull" /\ loc[d].status = "success") =>
          loc[d].requested = C20_Files(loc[d].manifest, loc[d].machines)

C20_Witness ==
    \E d \in Devices :
       /\ loc[d].cmd = "pull" /\ loc[d].status = "success" /\ loc[d].errors = 0
       /\ loc[d].requested = <<<<"C", <<"C", "">>>>, <<"A", <<"A", "_Y1">>>>,
                               <<"A", <<"A", "_Y2">>>>>>

\* --------------------------------------------------- claims on _request
Failed(resp) == resp.kind # "ok"

\* The exception the claim has a failed last attempt end in.
C19_Failure(resp) ==
    IF resp.kind = "exception" THEN "ConnectionError"
    ELSE IF resp.kind = "429" /\ resp.header = "bad" THEN "ValueError"
    ELSE "HTTPError"

\* C19: a remote call makes at most 3 attempts; no attempt follows a successful
\* response, which is what the call returns; after a failed or rate-limited
\* attempt the call goes on while fewer than 3 attempts were made; and after 3
\* failed attempts (three 429 responses included) it raises an error whose
\* cause is the failure of the last attempt.
C19_AtMostThreeAttempts ==
    /\ Len(req.responses) <= 3
    /\ \A i \in 1..(Len(req.responses) - 1) : Failed(req.responses[i])
    /\ req.state = "returned" =>
          /\ req.responses # <<>>
          /\ ~Failed(req.responses[Len(req.responses)])
    /\ (req.state = "running" /\ req.responses # <<>>) =>
          /\ Len(req.responses) < 3
          /\ Failed(req.responses[Len(req.responses)])
    /\ req.state = "raised" =>
          /\ Len(req.responses) = 3
          /\ \A i \in 1..3 : Failed(req.responses[i])
          /\ req.cause = [attempt |-> 3, error |-> C19_Failure(req.responses[3])]

C19_Witness ==
    /\ req.state = "raised"
    /\ \A i \in 1..3 : req.responses[i].kind = "429" /\ req.responses[i].header # "bad"
    /\ req.cause.error = "HTTPError"
    /\ Len(req.sleeps) = 2

\* ------------------------------------------------------ claims on pull
PullReturned(d) == loc[d].cmd = "pull" /\ pc[d] = "idle" /\ loc[d].status # "none"
                   /\ loc[d].manifest.machines # <<>>

RECURSIVE SumErrors(_)
SumErrors(outcomes) ==
    IF outcomes = <<>> THEN 0
    ELSE (IF Head(outcomes).failed THEN 1 ELSE Head(outcomes).record_errors)
         + SumErrors(Tail(outcomes))

\* C21: a pull that has read the manifest is never aborted by a requested
\* machine the manifest lacks nor by a file whose download, parse or import
\* fails: it returns success having handled every file of every requested
\* machine the manifest lists, and every failed file adds one to errors.
C21_PullNeverAborts ==
    \A d \in Devices :
       PullReturned(d) =>
          /\ loc[d].status = "success"
          /\ loc[d].requested = C20_Files(loc[d].manifest, loc[d].machines)
          /\ Len(loc[d].outcomes) = Len(loc[d].requested)
          /\ loc[d].errors = SumErrors(loc[d].outcomes)

C21_Witness ==
    \E d \in Devices :
       /\ PullReturned(d)
       /\ loc[d].machines = <<"Z", "A", "C">>
       /\ Len(loc[d].outcomes) = 3
       /\ loc[d].outcomes[1].failed /\ ~loc[d].outcomes[2].failed /\ ~loc[d].outcomes[3].failed
       /\ loc[d].errors = 1 /\ loc[d].new_records = 2

\* The records in the files of container g that its manifest lists, all machines
\* and all their files taken together.
RECURSIVE CountRecords(_, _)
CountRecords(files, names) ==
    IF names = <<>> THEN 0
    ELSE Len(files[Head(names)[2]].records) + CountRecords(files, Tail(names))

TotalRecords(g) ==
    CountRecords(gists[g].files,
                 C20_Files(gists[g].manifest, list_machines(gists[g].manifest)))

\* C22: a pull without machines argument into empty local stores that has read
\* the remote manifest reports machines_pulled equal to the number of machines
\* the manifest lists and, when no file and no record failed, new_records equal
\* to the number of records in all files of all those machines, chunked or
\* not, and duplicate_records = 0.
C22_PullAllIntoEmptyStores ==
    \A d \in Devices :
       (PullReturned(d) /\ ~loc[d].machines_given /\ loc[d].empty_target) =>
          /\ loc[d].machines_pulled = Len(gists[gist_id[d]].manifest.machines)
          /\ loc[d].errors = 0 =>
                /\ loc[d].new_records = TotalRecords(gist_id[d])
                /\ loc[d].duplicate_records = 0

C22_Witness ==
    \E d \in Devices :
       /\ PullReturned(d) /\ ~loc[d].machines_given /\ loc[d].empty_target
       /\ loc[d].errors = 0
       /\ loc[d].machines_pulled = 2
       /\ loc[d].new_records = 3
       /\ Len(loc[d].requested) = 3

\* C23: no local store of a device holds a record of another machine than the
\* one the store belongs to: pull imports the records of a file listed for
\* machine M into M's store only.
C23_StoresNeverMixed ==
    \A d \in Devices, m \in StoreNames :
       \A r \in stores[d][m] : r.message_uuid[1] = m

C23_Witness ==
    \E d \in Devices :
       /\ PullReturned(d)
       /\ Cardinality(stores[d]["A"]) = 2
       /\ Cardinality(stores[d]["C"]) = 2
       /\ stores[d][d] = {}

\* ------------------------------------------------- claims on the import
Stats(n, dup, err) == [new_records |-> n, duplicate_records |-> dup, errors |-> err]

\* The records of the bundle are well-formed and no two share their key.
DistinctKeys(bundle) ==
    /\ "records" \in DOMAIN bundle
    /\ \A i \in DOMAIN bundle.records : has_required_fields(bundle.records[i])
    /\ \A i, j \in DOMAIN bundle.records :
          natural_key(bundle.records[i]) = natural_key(bundle.records[j]) => i = j

\* A second import of the bundle of the first, both for real and without a
\* failing statement, the first into an empty store.
ImportedTwice ==
    /\ last_io.op = "import" /\ last_io.prev # NoIO
    /\ ~last_io.dry_run /\ ~last_io.prev.dry_run
    /\ last_io.fault = "none" /\ last_io.prev.fault = "none"
    /\ last_io.bundle = last_io.prev.bundle
    /\ last_io.prev.before = {}
    /\ DistinctKeys(last_io.bundle)

\* C24: importing the same bundle of N records with distinct keys twice into an
\* initially empty store returns new_records = N, duplicate_records = 0 the
\* first time and new_records = 0, duplicate_records = N the second time, and
\* the second import leaves the store as the first left it.
C24_ImportIdempotent ==
    ImportedTwice =>
       LET N == Len(last_io.bundle.records)
       IN /\ last_io.prev.raised = "none" /\ last_io.raised = "none"
          /\ last_io.prev.stats = Stats(N, 0, 0)
          /\ last_io.stats = Stats(0, N, 0)
          /\ stores["A"]["A"] = last_io.before
          /\ Cardinality(stores["A"]["A"]) = N

C24_Witness ==
    /\ ImportedTwice
    /\ Len(last_io.bundle.records) = 2
    /\ last_io.stats = Stats(0, 2, 0)
    /\ Cardinality(stores["A"]["A"]) = 2

\* An import for real of a bundle with its top-level fields, with no statement
\* outside the per-record loop failing.
ImportedForReal ==
    /\ last_io.op = "import" /\ ~last_io.dry_run /\ last_io.fault = "none"
    /\ "records" \in DOMAIN last_io.bundle

Keys(rows) == {natural_key(r) : r \in rows}

\* C25: in an import for real, every record that fails for another reason than
\* its key being in the store already is counted as one error and neither stops
\* nor undoes the import: the call returns, errors is the number of such
\* records, and every well-formed record of the bundle is in the store.
C25_RecordErrorsDoNotStopImport ==
    ImportedForReal =>
       LET records == last_io.bundle.records
       IN /\ last_io.raised = "none"
          /\ last_io.stats.errors =
                Cardinality({i \in DOMAIN records : ~has_required_fields(records[i])})
          /\ \A i \in DOMAIN records :
                has_required_fields(records[i]) =>
                   natural_key(records[i]) \in Keys(stores["A"]["A"])

\* C26: an import that ends in an exception leaves the store without any
\* record that it did not hold before the import.
C26_HardFailureRollsBack ==
    (last_io.op = "import" /\ last_io.raised # "none") =>
       stores["A"]["A"] = last_io.before

\* C27: a dry run inserts nothing and returns counts in which new_records is the
\* number of records with every required field, errors the number of the
\* others, and their sum the number of records of the bundle.
C27_DryRunCounts ==
    (last_io.op = "import" /\ last_io.dry_run /\ "records" \in DOMAIN last_io.bundle) =>
       LET records == last_io.bundle.records
           complete == {i \in DOMAIN records : has_required_fields(records[i])}
       IN /\ stores["A"]["A"] = last_io.before
          /\ last_io.raised = "none"
          /\ last_io.stats = Stats(Cardinality(complete), 0,
                                   Len(records) - Cardinality(complete))

\* ------------------------------------------------- claims on the export
Exported == last_io.op = "export"

\* The rows of the store that the export is asked for.
Matching == since(stores["A"]["A"], last_io.since_date)

RecordSet(bundle) == {bundle.records[i] : i \in DOMAIN bundle.records}

Suffixes == {b.suffix : b \in last_io.bundles}

\* recordCount x bytesPerRecordEstimate is at most maxFileSizeBytes.
Fits(recordCount) == recordCount * ESTIMATED_BYTES_PER_RECORD <= last_io.max_file_size

\* C28: for any store and any max_file_size the bundles of the export hold
\* together exactly the matching rows, each once: none is missing, none is in
\* two bundles or twice in one.
C28_ChunksAreComplete ==
    Exported =>
       /\ last_io.raised = "none"
       /\ UNION {RecordSet(b) : b \in last_io.bundles} = Matching
       /\ \A b \in last_io.bundles : Len(b.records) = Cardinality(RecordSet(b))
       /\ \A b, c \in last_io.bundles : b # c => RecordSet(b) \cap RecordSet(c) = {}

\* C29: every bundle of an export, full or incremental, holds at most
\* max_file_size \div ESTIMATED_BYTES_PER_RECORD records, except the single
\* bundle with suffix "" that is emitted when the whole export is estimated to fit.
C29_ChunkSizeBound ==
    Exported =>
       \A b \in last_io.bundles :
          IF b.suffix = <<>> THEN Fits(Len(b.records))
          ELSE Len(b.records) <= last_io.max_file_size \div ESTIMATED_BYTES_PER_RECORD

C29_Witness ==
    /\ Exported /\ last_io.since_date # NoDate
    /\ Matching # stores["A"]["A"]
    /\ last_io.max_file_size = 1649
    /\ \E b, c \in last_io.bundles :
          /\ Len(b.suffix) = 3 /\ Len(b.records) = 2
          /\ Len(c.suffix) = 1 /\ Len(c.records) = 1

\* C30: the export partitions progressively.  It is the single bundle "" iff
\* the whole export fits; otherwise each year of the export that fits is one
\* bundle _YYYY, each month of a year that does not fit is one bundle _YYYY_MM if
\* the month fits, and a month that does not fit is the bundles _YYYY_MM_p1 ..
\* _YYYY_MM_pK, numbered from 1 without gaps.
C30_ProgressivePartition ==
    (Exported /\ last_io.raised = "none") =>
       IF Fits(Cardinality(Matching)) THEN Suffixes = {<<>>}
       ELSE /\ \A s \in Suffixes : s # <<>> /\ \E r \in Matching : r.date[1] = s[1]
            /\ \A y \in {r.date[1] : r \in Matching} :
                  LET of_year == {r \in Matching : r.date[1] = y}
                  IN IF Fits(Cardinality(of_year))
                     THEN {s \in Suffixes : s[1] = y} = {<<y>>}
                     ELSE /\ <<y>> \notin Suffixes
                          /\ \A s \in Suffixes : s[1] = y =>
                                \E r \in of_year : r.date[2] = s[2]
                          /\ \A m \in {r.date[2] : r \in of_year} :
                                LET of_month == {r \in of_year : r.date[2] = m}
                                    named == {s \in Suffixes : s[1] = y /\ s[2] = m}
                                IN IF Fits(Cardinality(of_month))
                                   THEN named = {<<y, m>>}
                                   ELSE \E K \in 1..Cardinality(of_month) :
                                           named = {<<y, m, n>> : n \in 1..K}

\* C40: every import for real that returns reports counts whose sum is the
\* number of records of the bundle, and the store gains exactly new_records
\* rows and loses none.
C40_ImportCountsAddUp ==
    (last_io.op = "import" /\ ~last_io.dry_run /\ last_io.raised = "none") =>
       /\ last_io.stats.new_records + last_io.stats.duplicate_records + last_io.stats.errors
             = Len(last_io.bundle.records)
       /\ last_io.before \subseteq stores["A"]["A"]
       /\ Cardinality(stores["A"]["A"])
             = Cardinality(last_io.before) + last_io.stats.new_records

C40_Witness ==
    /\ last_io.op = "import" /\ ~last_io.dry_run /\ last_io.raised = "none"
    /\ last_io.prev # NoIO /\ last_io.prev.stats = Stats(1, 0, 1)
    /\ last_io.stats = Stats(0, 1, 1)
    /\ Cardinality(stores["A"]["A"]) = 2

\* ------------------------------------------------- claims on push, continued
\* C31: the result of a successful push reports conflicts_resolved = true if
\* and only if the resolver merged at least once during that push.
C31_ConflictsResolvedIffMerged ==
    \A d \in Devices :
       (loc[d].cmd = "push" /\ Succeeded(d)) =>
          (loc[d].conflicts_resolved <=> loc[d].merges >= 1)

\* A push of d has made remote calls and has not uploaded its manifest: it is
\* under way, or it has ended in an error before that upload.
BeforeManifestUpload(d) ==
    /\ loc[d].cmd = "push" /\ gist_id[d] # 0
    /\ loc[d].status \in {"running", "RuntimeError", "ConflictError"}
    /\ \A i \in DOMAIN loc[d].writes : loc[d].writes[i].call # "manifest"

\* The files the remote manifest lists for machine name that are not in the
\* container.
MissingFiles(g, name) ==
    IF is_valid(gists[g].manifest) /\ has_machine(gists[g].manifest, name)
    THEN Range(get_data_files(gists[g].manifest, name)) \ DOMAIN gists[g].files
    ELSE {}

\* C32: at every point of a push before its manifest upload, every data file
\* that the remote manifest lists for the pushing machine exists in the
\* container, so a pull at that moment can download each of them.
C32_OldFileSetKeptUntilManifestUpload ==
    \A d \in Devices : BeforeManifestUpload(d) => MissingFiles(gist_id[d], d) = {}

\* ------------------------------------- claims on the Manifest, continued
\* The step just taken is one of add_backup, remove_backup and merge_with, on
\* the manifest BSelf with the result BRes.
BackupStep ==
    opsLeft' = opsLeft - 1 /\ last'.op \in {"add_backup", "remove_backup", "merge_with"}
BSelf == IF last'.onA THEN ma ELSE mb
BRes == IF last'.onA THEN ma' ELSE mb'

Position(s, x) == CHOOSE i \in DOMAIN s : s[i] = x

\* Two backups that are in both lists come in the same order in both.
SameOrder(old, new) ==
    \A i, j \in DOMAIN old :
       (i < j /\ old[i] \in Range(new) /\ old[j] \in Range(new)) =>
          Position(new, old[i]) < Position(new, old[j])

\* C33: add_backup, remove_backup and merge_with leave every machine's backups
\* list without duplicates and most-recent first: the backups that were in the
\* list keep their order, and add_backup puts a new backup at the head.
C33_BackupsMostRecentFirst ==
    [][BackupStep =>
          \A name \in Names(BRes) :
             LET new == backups_of(get_machine(BRes, name))
             IN /\ NoDup(new)
                /\ has_machine(BSelf, name) =>
                      LET old == backups_of(get_machine(BSelf, name))
                      IN /\ SameOrder(old, new)
                         /\ last'.op = "add_backup" => (new = old \/ Tail(new) = old)]_vars

\* ------------------------------------------ claims on the resolver, continued
\* The step just taken is a fetch of the resolver of d whose download failed.
FailedFetch(d) ==
    /\ pc[d] = "resolve"
    /\ loc'[d].fetches = loc[d].fetches + 1
    /\ budget'.fails = budget.fails - 1

\* C34: when the remote manifest cannot be downloaded during conflict
\* detection, the resolver returns the local manifest unchanged: no merge, no
\* ConflictError, and push goes on with its next step.
C34_FailedFetchKeepsLocal ==
    [][\A d \in Devices :
          FailedFetch(d) =>
             /\ loc'[d].manifest = loc[d].manifest
             /\ loc'[d].merges = loc[d].merges
             /\ loc'[d].status # "ConflictError"
             /\ pc'[d] = after_resolve(loc[d])]_vars

\* ------------------------------------------ claims on push and the store
\* The records in the data files of a container that its manifest lists for
\* machine name.
RemoteRecords(container, name) ==
    IF is_valid(container.manifest) /\ has_machine(container.manifest, name)
    THEN UNION {Range(container.files[f].records) :
                   f \in Range(get_data_files(container.manifest, name)) \cap
                         DOMAIN container.files}
    ELSE {}

\* The step just taken is the return of a successful push of d.
PushSucceeds(d) ==
    /\ pc[d] # "idle" /\ pc'[d] = "idle"
    /\ loc'[d].cmd = "push" /\ loc'[d].status = "success"

\* C35: when a push of a machine returns success, full or incremental, with no
\* other writer of the machine's entry, the remote data files that the remote
\* manifest lists for the machine hold every record of the machine's local
\* store.
C35_RemoteHoldsLocalRecords ==
    [][\A d \in Devices :
          PushSucceeds(d) =>
             stores'[d][d] \subseteq RemoteRecords(gists'[gist_id'[d]], d)]_vars

\* The step just taken is a fetch of the resolver of d that is not its first,
\* and the remote manifest is what it was at the fetch before.
RefetchOfUnchangedRemote(d) ==
    /\ pc[d] = "resolve"
    /\ loc[d].fetches >= 1
    /\ loc'[d].fetches = loc[d].fetches + 1
    /\ gists[gist_id[d]].manifest = loc[d].remote_at_fetch

\* C36: when the remote manifest has not changed between two consecutive
\* fetches of the resolver, the second fetch finds no conflict and the resolver
\* returns: no further merge and no ConflictError, so that the resolver merges
\* at most once as long as the remote manifest stays the same.
C36_UnchangedRemoteEndsResolution ==
    [][\A d \in Devices :
          RefetchOfUnchangedRemote(d) =>
             /\ ~loc'[d].conflict
             /\ loc'[d].merges = loc[d].merges
             /\ loc'[d].status # "ConflictError"
             /\ pc'[d] = after_resolve(loc[d])]_vars

\* ------------------------------------------- claims on backups, continued
\* The backup files that the push of d under way has uploaded.
BackupsCreated(L) ==
    UNION {L.writes[i].files : i \in {j \in DOMAIN L.writes : L.writes[j].call = "backup"}}

\* C37: a backup file created by a push is still in the container when that
\* push returns, whatever backup_retention_days is: the prune step never
\* deletes the backup that the backup step of the same push created.
C37_OwnBackupSurvivesPrune ==
    [][\A d \in Devices :
          PushSucceeds(d) =>
             BackupsCreated(loc'[d]) \subseteq DOMAIN gists'[gist_id'[d]].files]_vars

\* --------------------------------------------- claims on the container
\* A step of the pull of d that is under way.
PullStep(d) ==
    /\ loc[d].cmd = "pull"
    /\ pc[d] # "idle"
    /\ <<pc'[d], loc'[d]>> # <<pc[d], loc[d]>>

\* C38: pull never writes to the remote store: no step of a pull creates a
\* container or creates, updates or deletes a remote file, whether or not a
\* container exists when the pull starts.
C38_PullLeavesRemoteAlone ==
    [][\A d \in Devices : PullStep(d) => gists' = gists]_vars

\* C39: when several devices run their first push at the same time and no
\* container with the sync description exists, at most one container is ever
\* created, and all devices write to that one container.
C39_OneContainer ==
    /\ Len(gists) <= 1
    /\ \A d, e \in Devices : gist_id[d] # 0 /\ gist_id[e] # 0 => gist_id[d] = gist_id[e]

============================================================================
